---- MODULE Spec2Model ----
(***************************************************************************)
(* Guard-mode zone allocator (xnu/osfmk/kern/gzalloc.c).                   *)
(*                                                                         *)
(* State: the gzalloc tunables, the boot phase, the pmap reserve, the      *)
(* gzalloc submap (entries, page protections, byte contents), one tracked  *)
(* zone (free-VA ring, counters, lock), the global counters and, per       *)
(* kernel thread, the position inside gzalloc_alloc / gzalloc_free /       *)
(* gzalloc_empty_free_cache.  Memory is modelled byte by byte so that the  *)
(* header layout and the fill-pattern scan are computed, not assumed.      *)
(***************************************************************************)
EXTENDS Integers, Sequences, FiniteSets, TLC

(* ------------------------------------------------------------ bounds --- *)
PageUnits == 5
ReservePages == 4
ArenaPages == 6
MaxFcSize == 2
MaxAllocs == 3
MaxRefrees == 1
MaxWrites == 1
MaxPreempt == 1
MaxEmpty == 2
MaxRings == 3
WriteByte == 65

(* -------------------------------------------------- program constants --- *)
PTR_SIZE == 8
U32_SIZE == 4
GZHEADER_SIZE == PTR_SIZE + U32_SIZE + U32_SIZE
gzalloc_fill_pattern == 103
PAGE_SIZE == 8 * PageUnits
\* 0xABADCAFE and 0xDEAD201E as little-endian bytes
GZALLOC_SIGNATURE == <<254, 202, 173, 171>>
GZDEADZONE == <<30, 32, 173, 222, 0, 0, 0, 0>>

RESERVE_BASE == PAGE_SIZE
RESERVE_END == RESERVE_BASE + ReservePages * PAGE_SIZE
ARENA_MIN == RESERVE_END
ARENA_MAX == ARENA_MIN + ArenaPages * PAGE_SIZE
\* address of the zone structure (outside reserve and arena)
ZoneAddr == ARENA_MAX + PAGE_SIZE

Threads == {1, 2}
\* ~0U: the largest value the 32-bit tunables can hold
U32_MAX == 2^30 + (2^30 - 1)
\* GZALLOC_MIN_DEFAULT (1024, a quarter page) and GZFC_DEFAULT_SIZE, scaled
GZALLOC_MIN_DEFAULT == 2 * PageUnits
GZFC_DEFAULT_SIZE == MaxFcSize
\* names a zone can carry; the DEBUG build tracks "pmap" by default
ZoneNames == {"pmap", "vm.pages"}
ElemSizes == {8, PAGE_SIZE - GZHEADER_SIZE, PAGE_SIZE - PTR_SIZE}

VARIABLES
    gzalloc_uf_mode, gzalloc_prot, gzalloc_consistency_checks,
    gzalloc_dfree_check, gzfc_size, elem_size,
    gzalloc_mode, gzalloc_min, gzalloc_max, gznamedzone, gztrackzone,
    bootargs, configured, z_name, esz, sos,
    phase,
    gzalloc_reserve, gzalloc_reserve_size,
    vmmap, mem,
    zone, zlock,
    stats,
    pc, loc,
    panic,
    obj, freeLog, kmemLog, writes, emptyCalls, hist, nthreads

\* the tunables set by gzalloc_configure, the boot-args it reads and the
\* zone's fixed attributes
tunables == <<gzalloc_uf_mode, gzalloc_prot, gzalloc_consistency_checks,
              gzalloc_dfree_check, gzfc_size, elem_size, nthreads,
              gzalloc_mode, gzalloc_min, gzalloc_max, gznamedzone, bootargs,
              configured, z_name, esz, sos>>
cfgvars == <<tunables, gztrackzone>>
vars == <<gzalloc_uf_mode, gzalloc_prot, gzalloc_consistency_checks,
          gzalloc_dfree_check, gzfc_size, elem_size, gzalloc_mode,
          gzalloc_min, gzalloc_max, gznamedzone, gztrackzone, bootargs,
          configured, z_name, esz, sos, phase,
          gzalloc_reserve, gzalloc_reserve_size, vmmap, mem, zone, zlock,
          stats, pc, loc, panic, obj, freeLog, kmemLog, writes, emptyCalls,
          hist, nthreads>>

(* ----------------------------------------------------------- helpers --- *)
round_page(x) == ((x + PAGE_SIZE - 1) \div PAGE_SIZE) * PAGE_SIZE
trunc_page(x) == x - (x % PAGE_SIZE)

rounded_size == round_page(elem_size + GZHEADER_SIZE)
\* mutation: the residue excludes the header
ResidueLessHeader == rounded_size - elem_size - GZHEADER_SIZE
residue == rounded_size - elem_size
RangeSize == rounded_size + PAGE_SIZE

SetMin(S) == CHOOSE x \in S : \A y \in S : x <= y

\* little-endian encoding of a small value in n bytes
RECURSIVE ShiftRight8(_, _)
ShiftRight8(v, k) == IF k = 0 THEN v ELSE ShiftRight8(v \div 256, k - 1)
LEBytes(v, n) == [k \in 1..n |-> ShiftRight8(v, k - 1) % 256]

ZonePtr == LEBytes(ZoneAddr, PTR_SIZE)

\* the gzalloc_element_size call made, if any: its argument a, what it
\* returned (ret, "panic" if it did not return) and the two out-parameters
\* *z and *gzsz
NoResult == [a |-> 0, ret |-> "none", z |-> << >>, sz |-> 0]
NoPanic == [kind |-> "none", addr |-> 0, idx |-> 0, gd |-> 0]
\* the SOS rings created so far (each the four values SOSRingCreate_Internal
\* stores in signedInformation) and the latest SOSRing call: its operation,
\* its two ring arguments and what it returned
NoRings == [rings |-> << >>,
            q |-> [op |-> "none", a |-> 0, b |-> 0, ret |-> "none"]]
Panic(k, a, i, g) == [kind |-> k, addr |-> a, idx |-> i, gd |-> g]

L0 == [addr |-> 0, saddr |-> 0, free_addr |-> 0, new_va |-> FALSE,
       copy |-> <<>>, freed |-> 0, i |-> 0]

(* ---------------------------------------------------- VM map / memory --- *)
\* kmem_range_contains(&gzalloc_range, a); the range is empty until the kmem
\* ranges are laid out (lines 306-311) and stays empty when gzalloc is off
kmem_range_contains(a) ==
    phase >= 1 /\ gzalloc_mode /\ ARENA_MIN <= a /\ a < ARENA_MAX

InReserve(a) == RESERVE_BASE <= a /\ a < RESERVE_END

\* mutation: the guard page is the last page in both layout modes
GuardAlwaysLast(b) == b + rounded_size
\* the guard page of the entry at base b: last page (KMA_GUARD_LAST) in
\* overflow mode, first page (KMA_GUARD_FIRST) in underflow mode
GuardStart(b) == IF gzalloc_uf_mode THEN b ELSE b + rounded_size
DataStart(b) == IF gzalloc_uf_mode THEN b + PAGE_SIZE ELSE b

EntryOf(a) == {b \in DOMAIN vmmap : b <= a /\ a < b + RangeSize}

\* outcome of a load ("r") or store ("w") at address a
Access(a, kind) ==
    IF InReserve(a) THEN "ok"
    ELSE IF EntryOf(a) = {} THEN "fault"
    ELSE LET b == CHOOSE x \in EntryOf(a) : TRUE IN
         IF GuardStart(b) <= a /\ a < GuardStart(b) + PAGE_SIZE THEN "fault"
         ELSE IF vmmap[b] = "rw" THEN "ok"
         ELSE IF vmmap[b] = "read" /\ kind = "r" THEN "ok"
         ELSE "fault"

Readable(S) == \A a \in S : Access(a, "r") = "ok"

Peek(a) == IF a \in DOMAIN mem THEN mem[a] ELSE 0
PeekBytes(a, n) == [k \in 1..n |-> Peek(a + k - 1)]

\* m with bytes bs stored at [at, at + Len(bs))
Store(m, at, bs) ==
    [a \in DOMAIN m |->
        IF at <= a /\ a < at + Len(bs) THEN bs[a - at + 1] ELSE m[a]]
\* m with [at, at + n) zeroed
Bzero(m, at, n) ==
    [a \in DOMAIN m |-> IF at <= a /\ a < at + n THEN 0 ELSE m[a]]
\* m extended with zero bytes over S
MapZero(m, S) ==
    [a \in (DOMAIN m) \cup S |-> IF a \in S THEN 0 ELSE m[a]]
Unmap(m, S) == [a \in (DOMAIN m) \ S |-> m[a]]

SlotBases == {ARENA_MIN + k * RangeSize :
                 k \in 0..((ArenaPages * PAGE_SIZE) \div RangeSize) - 1}
FreeBases == {b \in SlotBases : b \notin DOMAIN vmmap}
\* kernel_memory_allocate places a range at the lowest free address of the
\* submap (vm_map_find_space is first-fit)
KmaBase == SetMin(FreeBases)

(* ------------------------------------------------------------- Init --- *)
\* what the callers did last (history, read by no operation):
\*   lastFreed  Victim if the latest call was its first gzalloc_free, else 0
\*   b2b        the latest repeated free directly followed the first free
\*   lastEmpty  the latest call was a completed gzalloc_empty_free_cache
\*   pd         "" unless the latest call was a gzalloc_alloc made with
\*              preemption disabled: "nowait" with Z_NOWAIT, "wait" without
\*   held       some call into the arena (kernel_memory_allocate,
\*              vm_map_protect, kmem_free) was made by a thread holding
\*              the zone lock
Hist0 == [lastFreed |-> 0, b2b |-> FALSE, lastEmpty |-> FALSE, pd |-> "",
          held |-> FALSE]

Zone0 == [inited |-> FALSE, tracked |-> FALSE, gzfc |-> <<>>, gzfc_index |-> 0,
          z_elems_free |-> 0, z_wired_cur |-> 0, z_va_cur |-> 0,
          zs_mem_allocated |-> 0, zs_mem_freed |-> 0]
Stats0 == [gzalloc_allocated |-> 0, gzalloc_freed |-> 0,
           gzalloc_early_alloc |-> 0, gzalloc_early_free |-> 0,
           gzalloc_wasted |-> 0, pdzalloc_count |-> 0, pdzfree_count |-> 0]

\* boot-args: a flag token is present or not, a value token is absent (-1)
\* or carries a value; DEBUG is the build flavour (#if DEBUG, line 286)
NoBootArgs ==
    [gzalloc_mode |-> FALSE, gzalloc_min |-> -1, gzalloc_max |-> -1,
     gzalloc_size |-> -1, gzalloc_fc_size |-> -1, gzalloc_wp |-> FALSE,
     gzalloc_uf_mode |-> FALSE, gzalloc_no_dfree_check |-> FALSE,
     gzalloc_noconsistency |-> FALSE, gzname |-> "",
     nogzalloc_mode |-> FALSE, DEBUG |-> FALSE]

\* the engine as gzalloc_configure leaves it when it is enabled with every
\* size tracked (the flag tunables are drawn by the initial predicate)
Configured0 ==
    /\ gzalloc_mode = TRUE
    /\ gzalloc_min = 0
    /\ gzalloc_max = U32_MAX
    /\ gznamedzone = ""
    /\ bootargs = NoBootArgs
    /\ configured = TRUE
    /\ z_name = "vm.pages"
    /\ esz = NoResult
    /\ sos = NoRings

\* everything but the zone's element size and the ring capacity
InitButRing ==
    /\ gzalloc_uf_mode \in BOOLEAN
    /\ gzalloc_prot \in {"none", "read"}
    /\ gzalloc_consistency_checks \in BOOLEAN
    /\ gzalloc_dfree_check \in BOOLEAN
    /\ Configured0
    /\ phase = 0
    /\ gzalloc_reserve = RESERVE_BASE
    /\ gzalloc_reserve_size = ReservePages * PAGE_SIZE
    /\ vmmap = << >>
    /\ mem = << >>
    /\ zone = Zone0
    /\ zlock = 0
    /\ stats = Stats0
    /\ pc = [t \in Threads |-> "idle"]
    /\ loc = [t \in Threads |-> L0]
    /\ panic = NoPanic
    /\ obj = << >>
    /\ freeLog = << >>
    /\ kmemLog = << >>
    /\ writes = 0
    /\ emptyCalls = 0
    /\ hist = Hist0

\* everything but the zone's element size
InitButSize == gzfc_size \in 0..MaxFcSize /\ InitButRing

InitCommon == elem_size \in ElemSizes /\ InitButSize

Init == InitCommon /\ gztrackzone = FALSE /\ nthreads = 1


\* the allocation a misbehaving caller targets (stray accesses, repeated
\* frees): the first one made, which may be early or post-VM and may sit in
\* any ring slot
Victim == SetMin(1..MaxAllocs)

Idle(t) == pc[t] = "idle"
Running == panic.kind = "none"
Active(t) == t <= nthreads
\* the pmap reserve is only used during single-threaded early boot
BootThread(t) == phase = 2 \/ t = 1

\* calls made with preemption disabled are capped
PreemptBudget == stats.pdzalloc_count + stats.pdzfree_count < MaxPreempt

\* mutation: the lock is kept
ZoneUnlockNever(l, t) == l
\* zone_unlock(zone) by thread t: the lock word afterwards
ZoneUnlock(l, t) == IF l = t THEN 0 ELSE l

(* -------------------------------------------------------- boot steps --- *)
\* phase 0: startup_phase < STARTUP_SUB_KMEM
\* phase 1: kmem is up (gzalloc_init has created the submap), vm_page_zone
\*          is still ZONE_NULL
\* phase 2: kmem is up and vm_page_zone exists
startup_advance ==
    /\ Running
    /\ phase < 2
    /\ \A t \in Threads : Idle(t)
    /\ phase' = phase + 1
    /\ hist' = [hist EXCEPT !.lastFreed = 0, !.lastEmpty = FALSE, !.pd = ""]
    /\ UNCHANGED <<cfgvars, gzalloc_reserve, gzalloc_reserve_size, vmmap, mem,
                   zone, zlock, stats, pc, loc, panic, obj, freeLog, kmemLog,
                   writes, emptyCalls>>

ZeroRing(n) == [k \in 1..n |-> 0]

(* ------------------------------------------------- gzalloc_configure --- *)
\* lines 238-242, 244-247, 249-254, 256-259: the four enabling tokens, in
\* the order the code parses them; each stage maps [mode, min, max]
CfgEnable(c) ==
    IF bootargs.gzalloc_mode
    THEN [mode |-> TRUE, min |-> GZALLOC_MIN_DEFAULT, max |-> U32_MAX]
    ELSE c
CfgMin(c) ==
    IF bootargs.gzalloc_min # -1
    THEN [mode |-> TRUE, min |-> bootargs.gzalloc_min, max |-> U32_MAX]
    ELSE c
\* mutation: gzalloc_max leaves an unset gzalloc_min alone
CfgMaxKeepsMin(c) ==
    IF bootargs.gzalloc_max # -1
    THEN [mode |-> TRUE, min |-> c.min, max |-> bootargs.gzalloc_max]
    ELSE c
CfgMax(c) ==
    IF bootargs.gzalloc_max # -1
    THEN [mode |-> TRUE,
          min |-> IF c.min = U32_MAX THEN 0 ELSE c.min,
          max |-> bootargs.gzalloc_max]
    ELSE c
CfgSize(c) ==
    IF bootargs.gzalloc_size # -1
    THEN [mode |-> TRUE, min |-> bootargs.gzalloc_size,
          max |-> bootargs.gzalloc_size]
    ELSE c
\* lines 283-285: gzname enables the engine
CfgName(c) == IF bootargs.gzname # "" THEN [c EXCEPT !.mode = TRUE] ELSE c
\* lines 286-294: a DEBUG build left disabled so far tracks 1024-byte zones
\* and "pmap", write-protecting freed elements
CfgDebugFires(c) == bootargs.DEBUG /\ ~c.mode
CfgDebug(c) ==
    IF CfgDebugFires(c)
    THEN [mode |-> TRUE, min |-> GZALLOC_MIN_DEFAULT,
          max |-> GZALLOC_MIN_DEFAULT]
    ELSE c
\* mutation: the disable token is ignored
CfgDisableIgnored(c) == c
\* lines 295-297: -nogzalloc_mode
CfgDisable(c) ==
    IF bootargs.nogzalloc_mode THEN [c EXCEPT !.mode = FALSE] ELSE c
CfgModeMinMax ==
    CfgDisable(CfgDebug(CfgName(CfgSize(CfgMax(CfgMin(CfgEnable(
        [mode |-> gzalloc_mode, min |-> gzalloc_min,
         max |-> gzalloc_max])))))))

gzalloc_configure ==
    /\ Running
    /\ ~configured
    /\ LET c == CfgModeMinMax
           dbg == CfgDebugFires(CfgName(CfgSize(CfgMax(CfgMin(CfgEnable(
                     [mode |-> gzalloc_mode, min |-> gzalloc_min,
                      max |-> gzalloc_max]))))))
       IN
       /\ gzalloc_mode' = c.mode
       /\ gzalloc_min' = c.min
       /\ gzalloc_max' = c.max
       /\ gzfc_size' = IF bootargs.gzalloc_fc_size # -1
                       THEN bootargs.gzalloc_fc_size ELSE gzfc_size
       /\ gzalloc_prot' = IF bootargs.gzalloc_wp \/ dbg THEN "read"
                          ELSE gzalloc_prot
       /\ gzalloc_uf_mode' = (bootargs.gzalloc_uf_mode \/ gzalloc_uf_mode)
       /\ gzalloc_dfree_check' =
              (gzalloc_dfree_check /\ ~bootargs.gzalloc_no_dfree_check)
       /\ gzalloc_consistency_checks' =
              (gzalloc_consistency_checks /\ ~bootargs.gzalloc_noconsistency)
       /\ gznamedzone' = IF bootargs.gzname # "" THEN bootargs.gzname
                         ELSE IF dbg THEN "pmap" ELSE gznamedzone
       \* lines 299-302: the reserve is stolen only when enabled
       /\ IF c.mode
          THEN /\ gzalloc_reserve' = RESERVE_BASE
               /\ gzalloc_reserve_size' = ReservePages * PAGE_SIZE
          ELSE UNCHANGED <<gzalloc_reserve, gzalloc_reserve_size>>
    /\ configured' = TRUE
    /\ UNCHANGED <<elem_size, nthreads, bootargs, z_name, esz, sos, gztrackzone,
                   phase,
                   vmmap, mem, zone, zlock, stats, pc, loc, panic, obj,
                   freeLog, kmemLog, writes, emptyCalls, hist>>

(* ------------------------------------------------- gzalloc_zone_init --- *)
\* track_this_zone(z->z_name, gznamedzone)
track_this_zone(name, pattern) == pattern # "" /\ name = pattern

\* mutation: only the size range decides
ZoneTrackedBySizeOnly(named) ==
    elem_size >= gzalloc_min /\ elem_size <= gzalloc_max
\* lines 156-157: z->z_gzalloc_tracked
ZoneTracked(named) ==
    named \/ (elem_size >= gzalloc_min /\ elem_size <= gzalloc_max)

\* mutation: the mode is not looked at
ZoneInitSkipsNever == FALSE
\* lines 146-148: nothing is done while the engine is disabled
ZoneInitSkips == ~gzalloc_mode

gzalloc_zone_init ==
    /\ Running /\ configured
    /\ ~zone.inited
    /\ \A t \in Threads : Idle(t)
    /\ IF ZoneInitSkips
       THEN /\ zone' = [zone EXCEPT !.inited = TRUE]
            /\ UNCHANGED <<gzalloc_reserve, gzalloc_reserve_size, panic,
                           gztrackzone>>
       ELSE LET gzfcsz == round_page(PTR_SIZE * gzfc_size)
                named == gztrackzone \/ track_this_zone(z_name, gznamedzone)
                trk == ZoneTracked(named)
                ring == gzfc_size > 0 /\ trk
            IN
            /\ gztrackzone' = named
            /\ IF ring /\ phase = 0 /\ gzalloc_reserve_size < gzfcsz
               THEN /\ panic' = Panic("reserve", gzalloc_reserve, 0, 0)
                    /\ zone' = [zone EXCEPT !.inited = TRUE, !.tracked = trk,
                                            !.gzfc = << >>, !.gzfc_index = 0]
                    /\ UNCHANGED <<gzalloc_reserve, gzalloc_reserve_size>>
               ELSE /\ zone' = [zone EXCEPT
                          !.inited = TRUE, !.tracked = trk,
                          !.gzfc = IF ring THEN ZeroRing(gzfc_size) ELSE << >>,
                          !.gzfc_index = 0]
                    /\ IF ring /\ phase = 0
                       THEN /\ gzalloc_reserve' = gzalloc_reserve + gzfcsz
                            /\ gzalloc_reserve_size' =
                                   gzalloc_reserve_size - gzfcsz
                       ELSE UNCHANGED <<gzalloc_reserve, gzalloc_reserve_size>>
                    /\ UNCHANGED panic
    /\ hist' = [hist EXCEPT !.lastFreed = 0, !.lastEmpty = FALSE, !.pd = ""]
    /\ UNCHANGED <<tunables, phase, vmmap, mem, zlock, stats, pc, loc, obj,
                   freeLog, kmemLog, writes, emptyCalls>>

(* ----------------------------------------------------- gzalloc_alloc --- *)
\* mutation: the owner is the zone in every boot phase
AllocOwnerAlwaysZone == ZonePtr
\* gzh->gzone as written by gzalloc_alloc
AllocOwner == IF phase = 2 THEN ZonePtr ELSE GZDEADZONE

AllocHeader == AllocOwner \o LEBytes(elem_size, U32_SIZE) \o GZALLOC_SIGNATURE

\* mutation: the element sits right after a leading header instead of
\* abutting the end of the range
AllocAddrLow(base) ==
    (IF gzalloc_uf_mode THEN base + PAGE_SIZE ELSE base) + GZHEADER_SIZE
\* element address and header addresses for a range starting at base
\* (base is the address returned by the reserve or by kernel_memory_allocate)
AllocGzaddr(base) == IF gzalloc_uf_mode THEN base + PAGE_SIZE ELSE base
AllocAddr(base) ==
    IF gzalloc_uf_mode THEN AllocGzaddr(base) ELSE AllocGzaddr(base) + residue
AllocGzh(base) ==
    IF gzalloc_uf_mode THEN AllocGzaddr(base) + elem_size
    ELSE AllocGzaddr(base) + residue - GZHEADER_SIZE

\* the contents gzalloc_alloc gives the range: zeroed, then the header
AllocFill(m, base) == Bzero(m, AllocGzaddr(base), rounded_size)

AllocLayout(m, base) ==
    LET z == AllocFill(m, base)
        h == Store(z, AllocGzh(base), AllocHeader)
    IN IF gzalloc_uf_mode
       THEN Store(h, AllocGzaddr(base) + rounded_size - GZHEADER_SIZE,
                  [k \in 1..GZHEADER_SIZE |-> h[AllocGzh(base) + k - 1]])
       ELSE h

\* kernel_memory_allocate(gzalloc_map, ..., KMA_ZERO | gzalloc_guard): a new
\* entry at base b, every page but the guard page backed by zeroed memory
DataPages(b) == DataStart(b)..(DataStart(b) + rounded_size - 1)

\* mutation: the diagnostic counter is not kept
PdCountNever(preempt) == 0
\* lines 331, 335: pdzalloc_count++ when the preemption level is not zero
PdCount(preempt) == IF preempt THEN 1 ELSE 0
\* lines 331-334: return 0 when preemption is disabled and Z_NOWAIT is set
NowaitReturns(preempt, nowait) == preempt /\ nowait

\* mutation: no page is added to the early request
ReserveRequestNoWaste == rounded_size
\* lines 349-357: what an early allocation takes from the reserve
ReserveRequest == rounded_size + PAGE_SIZE

\* line 329: assert(zone->z_gzalloc_tracked), the caller is responsible for
\* checking; a build with assertions panics on an untracked zone, a build
\* without them runs the body
gzalloc_alloc_carve(t, preempt, nowait) ==
    /\ Running /\ Active(t) /\ Idle(t) /\ BootThread(t)
    /\ configured
    /\ (preempt /\ ~nowait) => PreemptBudget
    /\ Len(obj) + Cardinality({u \in Threads : pc[u] \in {"a_lock", "a_unlock"}})
          < MaxAllocs
    /\ \/ /\ ~zone.tracked
          /\ panic' = Panic("assert", 0, 0, 0)
          /\ UNCHANGED <<gzalloc_reserve, gzalloc_reserve_size, vmmap,
                         mem, stats, pc, loc>>
       \* without assertions, or on a tracked zone: lines 331-395
       \/ IF NowaitReturns(preempt, nowait)
          THEN UNCHANGED <<gzalloc_reserve, gzalloc_reserve_size, vmmap, mem,
                           stats, pc, loc, panic>>
          ELSE IF phase < 2
          THEN IF gzalloc_reserve_size < ReserveRequest
               THEN /\ panic' = Panic("reserve", gzalloc_reserve, 0, 0)
                    /\ stats' = [stats EXCEPT !.pdzalloc_count =
                                    @ + PdCount(preempt)]
                    /\ UNCHANGED <<gzalloc_reserve, gzalloc_reserve_size, vmmap,
                                   mem, pc, loc>>
               ELSE LET base == gzalloc_reserve IN
                    /\ gzalloc_reserve' = gzalloc_reserve + ReserveRequest
                    /\ gzalloc_reserve_size' =
                           gzalloc_reserve_size - ReserveRequest
                    /\ stats' = [stats EXCEPT
                           !.pdzalloc_count = @ + PdCount(preempt),
                           !.gzalloc_early_alloc = @ + rounded_size]
                    /\ mem' = AllocLayout(
                           MapZero(mem, base..(base + RangeSize - 1)), base)
                    /\ loc' = [loc EXCEPT ![t] = [L0 EXCEPT
                           !.addr = AllocAddr(base), !.saddr = base,
                           !.new_va = FALSE]]
                    /\ pc' = [pc EXCEPT ![t] = "a_lock"]
                    /\ UNCHANGED <<vmmap, panic>>
          ELSE IF ~gzalloc_mode
          \* gzalloc_init created no submap: gzalloc_map is NULL
          THEN /\ panic' = Panic("nomap", 0, 0, 0)
               /\ stats' = [stats EXCEPT !.pdzalloc_count =
                               @ + PdCount(preempt)]
               /\ UNCHANGED <<gzalloc_reserve, gzalloc_reserve_size, vmmap,
                              mem, pc, loc>>
          ELSE /\ FreeBases # {}
               /\ \E base \in {KmaBase} :
                    /\ vmmap' = [b \in (DOMAIN vmmap) \cup {base} |->
                                   IF b = base THEN "rw" ELSE vmmap[b]]
                    /\ mem' = AllocLayout(MapZero(mem, DataPages(base)), base)
                    /\ loc' = [loc EXCEPT ![t] = [L0 EXCEPT
                           !.addr = AllocAddr(base), !.saddr = base,
                           !.new_va = TRUE]]
               /\ stats' = [stats EXCEPT !.pdzalloc_count =
                               @ + PdCount(preempt)]
               /\ pc' = [pc EXCEPT ![t] = "a_lock"]
               /\ UNCHANGED <<gzalloc_reserve, gzalloc_reserve_size, panic>>
    /\ hist' = [hist EXCEPT !.lastFreed = 0, !.lastEmpty = FALSE,
          !.pd = IF ~preempt THEN "" ELSE IF nowait THEN "nowait" ELSE "wait",
          \* line 360: kernel_memory_allocate, before the lock of line 397
          !.held = @ \/ (vmmap' # vmmap /\ zlock = t)]
    /\ UNCHANGED <<cfgvars, phase, zone, zlock, obj, freeLog, kmemLog, writes,
                   emptyCalls>>

gzalloc_alloc_lock(t) ==
    /\ Running /\ pc[t] = "a_lock"
    /\ zlock = 0
    /\ zlock' = t
    /\ zone' = [zone EXCEPT
          !.z_elems_free = @ - 1,
          !.z_va_cur = @ + (IF loc[t].new_va THEN 1 ELSE 0),
          !.z_wired_cur = @ + 1,
          !.zs_mem_allocated = @ + rounded_size]
    /\ pc' = [pc EXCEPT ![t] = "a_unlock"]
    /\ UNCHANGED <<cfgvars, hist, phase, gzalloc_reserve, gzalloc_reserve_size,
                   vmmap, mem, stats, loc, panic, obj, freeLog, kmemLog,
                   writes, emptyCalls>>

\* mutation: the whole range is counted as waste
AllocWasteRounded == rounded_size
\* line 408: the bytes of the range the element does not use
AllocWaste == rounded_size - elem_size

gzalloc_alloc_return(t) ==
    /\ Running /\ pc[t] = "a_unlock"
    /\ zlock' = ZoneUnlock(zlock, t)
    /\ stats' = [stats EXCEPT
          !.gzalloc_allocated = @ + rounded_size,
          !.gzalloc_wasted = @ + AllocWaste]
    /\ obj' = Append(obj, [p |-> loc[t].addr, base |-> loc[t].saddr,
                           early |-> ~loc[t].new_va, nfree |-> 0])
    /\ pc' = [pc EXCEPT ![t] = "idle"]
    /\ loc' = [loc EXCEPT ![t] = L0]
    /\ UNCHANGED <<cfgvars, hist, phase, gzalloc_reserve, gzalloc_reserve_size,
                   vmmap, mem, zone, panic, freeLog, kmemLog, writes,
                   emptyCalls>>

(* ------------------------------------------------------ gzalloc_free --- *)
\* frees of a pointer that was already passed to gzalloc_free are capped
RECURSIVE SumRefrees(_)
SumRefrees(k) ==
    IF k = 0 THEN 0
    ELSE SumRefrees(k - 1) + (IF obj[k].nfree > 1 THEN obj[k].nfree - 1 ELSE 0)
Refrees == SumRefrees(Len(obj))

\* base of the range and header address recovered from the element pointer
FreeSaddr(addr) ==
    IF gzalloc_uf_mode THEN addr - PAGE_SIZE ELSE addr - residue
FreeGzh(addr) ==
    IF gzalloc_uf_mode THEN addr + elem_size ELSE addr - GZHEADER_SIZE

\* the region scanned for the fill pattern: [CheckStart, CheckEnd)
CheckStart(addr) ==
    IF gzalloc_uf_mode THEN FreeGzh(addr) + PTR_SIZE ELSE trunc_page(addr)
CheckEnd(addr) ==
    IF gzalloc_uf_mode THEN trunc_page(addr) + PAGE_SIZE ELSE FreeGzh(addr)
CheckRegion(addr) == {a \in CheckStart(addr)..(CheckEnd(addr) - 1) : TRUE}

\* mutation: the scan finds nothing
DfreeHitsNone(gzfc, saddr) == {}
\* ring slots (0-based) holding saddr
DfreeHits(gzfc, saddr) == {gd \in 0..(Len(gzfc) - 1) : gzfc[gd + 1] = saddr}

\* the double-free scan runs iff both tunables are set
DfreeScan == gzfc_size > 0 /\ gzalloc_dfree_check

gzalloc_free_entry(t, i) ==
    /\ Running /\ Active(t) /\ Idle(t)
    /\ zone.tracked
    /\ i \in 1..Len(obj)
    /\ obj[i].nfree > 0 => (i = Victim /\ Refrees < MaxRefrees)
    /\ LET addr == obj[i].p
           saddr == FreeSaddr(addr)
       IN
       /\ obj' = [obj EXCEPT ![i].nfree = @ + 1]
       /\ IF saddr % PAGE_SIZE # 0
          THEN /\ panic' = Panic("align", addr, 0, 0)
               /\ pc' = [pc EXCEPT ![t] = "f_entry"]
               /\ UNCHANGED loc
          ELSE /\ loc' = [loc EXCEPT ![t] =
                          [L0 EXCEPT !.addr = addr, !.saddr = saddr, !.i = i]]
               /\ pc' = [pc EXCEPT ![t] =
                          IF DfreeScan THEN "f_dfree" ELSE "f_check"]
               /\ UNCHANGED panic
    /\ hist' = [hist EXCEPT
          !.lastFreed = IF i = Victim /\ obj[i].nfree = 0 THEN i ELSE 0,
          !.b2b = IF obj[i].nfree > 0 THEN hist.lastFreed = i ELSE @,
          !.lastEmpty = FALSE, !.pd = ""]
    /\ UNCHANGED <<cfgvars, phase, gzalloc_reserve, gzalloc_reserve_size,
                   vmmap, mem, zone, zlock, stats, freeLog, kmemLog, writes,
                   emptyCalls>>

\* lines 441-451: under the zone lock, scan the ring for saddr
gzalloc_free_dfree(t) ==
    /\ Running /\ pc[t] = "f_dfree"
    /\ zlock = 0
    /\ zlock' = t
    /\ LET hits == DfreeHits(zone.gzfc, loc[t].saddr) IN
       IF hits # {}
       THEN /\ panic' = Panic("dfree", loc[t].saddr, zone.gzfc_index,
                              SetMin(hits))
            /\ UNCHANGED pc
       ELSE /\ pc' = [pc EXCEPT ![t] = "f_check"]
            /\ UNCHANGED panic
    /\ UNCHANGED <<cfgvars, hist, phase, gzalloc_reserve, gzalloc_reserve_size,
                   vmmap, mem, zone, stats, loc, obj, freeLog, kmemLog,
                   writes, emptyCalls>>

\* mutation: the checks are not made
ConsistencyVerdictNone(addr) == NoPanic
\* lines 454-492: the consistency checks; "ok" or the panic they raise
ConsistencyVerdict(addr) ==
    LET gzh == FreeGzh(addr)
        sigAt == gzh + PTR_SIZE + U32_SIZE
        sizeAt == gzh + PTR_SIZE
        bad == {a \in CheckRegion(addr) :
                   Access(a, "r") # "ok" \/ Peek(a) # gzalloc_fill_pattern}
    IN
    IF ~gzalloc_consistency_checks THEN NoPanic
    ELSE IF ~Readable(sigAt..(sigAt + U32_SIZE - 1))
         THEN Panic("fault_r", sigAt, 0, 0)
    ELSE IF PeekBytes(sigAt, U32_SIZE) # GZALLOC_SIGNATURE
         THEN Panic("sig", addr, 0, 0)
    ELSE IF ~Readable(gzh..(gzh + PTR_SIZE - 1))
         THEN Panic("fault_r", gzh, 0, 0)
    ELSE IF PeekBytes(gzh, PTR_SIZE) # ZonePtr
            /\ PeekBytes(gzh, PTR_SIZE) # GZDEADZONE
         THEN Panic("zone", addr, 0, 0)
    ELSE IF ~Readable(sizeAt..(sizeAt + U32_SIZE - 1))
         THEN Panic("fault_r", sizeAt, 0, 0)
    ELSE IF PeekBytes(sizeAt, U32_SIZE) # LEBytes(elem_size, U32_SIZE)
         THEN Panic("size", addr, 0, 0)
    ELSE IF bad # {}
         THEN IF Access(SetMin(bad), "r") # "ok"
              THEN Panic("fault_r", SetMin(bad), 0, 0)
              ELSE Panic("fill", SetMin(bad), 0, 0)
    ELSE NoPanic

\* mutation: the owner stored in the header is not consulted
EarlyVerdictByPhase(addr) == IF phase = 0 THEN "leak" ELSE "go"
\* line 494: "fault_r", or whether the free is leaked as an early free
EarlyVerdict(addr) ==
    IF phase = 0 THEN "leak"
    ELSE IF ~Readable(FreeGzh(addr)..(FreeGzh(addr) + PTR_SIZE - 1))
         THEN "fault_r"
    ELSE IF PeekBytes(FreeGzh(addr), PTR_SIZE) = GZDEADZONE THEN "leak"
    ELSE "go"

\* vm_map_protect(gzalloc_map, start, end, prot): fails unless the whole
\* range is covered by map entries
ProtectOK(start, end) ==
    \A a \in {start + k * PAGE_SIZE : k \in 0..((end - start) \div PAGE_SIZE) - 1} :
        EntryOf(a) # {}
\* mutations of the protection applied on free
FreeProtRead == "read"
FreeProtRW == "rw"
\* protection given to a freed range held in the ring
FreeProt == gzalloc_prot
\* mutation: vm_map_protect changes nothing
ProtectNothing(vm, start, end, prot) == vm
Protect(vm, start, end, prot) ==
    [b \in DOMAIN vm |-> IF start <= b /\ b < end THEN prot ELSE vm[b]]

\* mutation: without a ring nothing is released
FreeAddrNone(saddr) == 0
\* lines 518-520: without a ring the freed range itself is released
FreeAddrDirect(saddr) == saddr

\* lines 451-520: leave the scan's lock, validate, leak or protect
gzalloc_free_check(t, preempt) ==
    /\ Running /\ pc[t] = "f_check"
    /\ preempt => PreemptBudget
    /\ zlock' = ZoneUnlock(zlock, t)
    /\ LET addr == loc[t].addr
           saddr == loc[t].saddr
           cv == ConsistencyVerdict(addr)
           ev == EarlyVerdict(addr)
       IN
       IF cv.kind # "none"
       THEN /\ panic' = cv
            /\ UNCHANGED <<vmmap, stats, pc, loc>>
       ELSE IF ev = "fault_r"
       THEN /\ panic' = Panic("fault_r", FreeGzh(addr), 0, 0)
            /\ UNCHANGED <<vmmap, stats, pc, loc>>
       ELSE IF ev = "leak"
       THEN /\ stats' = [stats EXCEPT !.gzalloc_early_free = @ + rounded_size]
            /\ pc' = [pc EXCEPT ![t] = "idle"]
            /\ loc' = [loc EXCEPT ![t] = L0]
            /\ UNCHANGED <<vmmap, panic>>
       ELSE IF gzfc_size > 0
       THEN IF ProtectOK(saddr, saddr + rounded_size + PAGE_SIZE)
            THEN /\ vmmap' = Protect(vmmap, saddr,
                                     saddr + rounded_size + PAGE_SIZE, FreeProt)
                 /\ stats' = [stats EXCEPT !.pdzfree_count =
                                 @ + (IF preempt THEN 1 ELSE 0)]
                 /\ pc' = [pc EXCEPT ![t] = "f_insert"]
                 /\ UNCHANGED <<loc, panic>>
            ELSE /\ panic' = Panic("protect", saddr, 0, 0)
                 /\ stats' = [stats EXCEPT !.pdzfree_count =
                                 @ + (IF preempt THEN 1 ELSE 0)]
                 /\ UNCHANGED <<vmmap, pc, loc>>
       ELSE /\ loc' = [loc EXCEPT ![t].free_addr = FreeAddrDirect(saddr)]
            /\ stats' = [stats EXCEPT !.pdzfree_count =
                            @ + (IF preempt THEN 1 ELSE 0)]
            /\ pc' = [pc EXCEPT ![t] = "f_insert"]
            /\ UNCHANGED <<vmmap, panic>>
    \* line 512: vm_map_protect is reached iff the free is not leaked and
    \* the ring exists
    /\ hist' = [hist EXCEPT !.held =
          @ \/ (/\ ConsistencyVerdict(loc[t].addr).kind = "none"
                /\ EarlyVerdict(loc[t].addr) = "go"
                /\ gzfc_size > 0
                /\ zlock' = t)]
    /\ UNCHANGED <<cfgvars, phase, gzalloc_reserve, gzalloc_reserve_size,
                   mem, zone, obj, freeLog, kmemLog, writes, emptyCalls>>

\* mutations of the ring insertion
RingIndexNoWrap(gz) == 0
RingInsertSwapped(gz, saddr) ==
    [gzfc |-> [gz.gzfc EXCEPT ![(IF gz.gzfc_index >= gzfc_size THEN 0
                                 ELSE gz.gzfc_index) + 1] = saddr],
     gzfc_index |-> (IF gz.gzfc_index >= gzfc_size THEN 0
                     ELSE gz.gzfc_index) + 1,
     free_addr |-> saddr]

\* mutation: the prior occupant of the slot is dropped
RingInsertNoEvict(gz, saddr) ==
    [gzfc |-> [gz.gzfc EXCEPT ![(IF gz.gzfc_index >= gzfc_size THEN 0
                                 ELSE gz.gzfc_index) + 1] = saddr],
     gzfc_index |-> (IF gz.gzfc_index >= gzfc_size THEN 0
                     ELSE gz.gzfc_index) + 1,
     free_addr |-> 0]
\* mutation: the index is wrapped when it is advanced
RingInsertEager(gz, saddr) ==
    [gzfc |-> [gz.gzfc EXCEPT ![(IF gz.gzfc_index >= gzfc_size THEN 0
                                 ELSE gz.gzfc_index) + 1] = saddr],
     gzfc_index |-> ((IF gz.gzfc_index >= gzfc_size THEN 0
                      ELSE gz.gzfc_index) + 1) % gzfc_size,
     free_addr |-> gz.gzfc[(IF gz.gzfc_index >= gzfc_size THEN 0
                            ELSE gz.gzfc_index) + 1]]

\* lines 528-534: store saddr in the slot at the insertion index; the
\* result is the new ring, the new index and the evicted occupant
RingIndex(gz) == IF gz.gzfc_index >= gzfc_size THEN 0 ELSE gz.gzfc_index
RingInsert(gz, saddr) ==
    [gzfc |-> [gz.gzfc EXCEPT ![RingIndex(gz) + 1] = saddr],
     gzfc_index |-> RingIndex(gz) + 1,
     free_addr |-> gz.gzfc[RingIndex(gz) + 1]]

\* mutation: every free is counted as a release
ReleaseCountAlways(free_addr) == 1
\* lines 536-539: the zone counters move only when a range is released
ReleaseCount(free_addr) == IF free_addr # 0 THEN 1 ELSE 0

\* lines 522-541: under the zone lock, insert and account
gzalloc_free_insert(t) ==
    /\ Running /\ pc[t] = "f_insert"
    /\ zlock = 0
    /\ zlock' = t
    /\ LET ins == IF gzfc_size > 0 THEN RingInsert(zone, loc[t].saddr)
                  ELSE [gzfc |-> zone.gzfc, gzfc_index |-> zone.gzfc_index,
                        free_addr |-> loc[t].free_addr]
           rel == ReleaseCount(ins.free_addr)
       IN
       /\ zone' = [zone EXCEPT
             !.gzfc = ins.gzfc,
             !.gzfc_index = ins.gzfc_index,
             !.z_elems_free = @ + rel,
             !.z_wired_cur = @ - rel,
             !.zs_mem_freed = @ + rounded_size]
       /\ loc' = [loc EXCEPT ![t].free_addr = ins.free_addr]
       /\ freeLog' = IF gzfc_size > 0 THEN Append(freeLog, loc[t].i)
                     ELSE freeLog
    /\ pc' = [pc EXCEPT ![t] = "f_release"]
    /\ UNCHANGED <<cfgvars, hist, phase, gzalloc_reserve, gzalloc_reserve_size,
                   vmmap, mem, stats, panic, obj, kmemLog, writes, emptyCalls>>

\* kmem_free(gzalloc_map, base, size): the entry at base and its backing
\* memory are removed; freeing a range that is not an entry panics
KmemFreeOK(vm, base) == base \in DOMAIN vm
\* mutation: the map entry survives the release
KmemFreeMapKeeps(vm, base) == vm
KmemFreeMap(vm, base) == [b \in (DOMAIN vm) \ {base} |-> vm[b]]
KmemFreeMem(m, base) == Unmap(m, base..(base + RangeSize - 1))

\* lines 542-553: unlock, release the evicted range
gzalloc_free_release(t) ==
    /\ Running /\ pc[t] = "f_release"
    /\ zlock' = ZoneUnlock(zlock, t)
    /\ LET fa == loc[t].free_addr IN
       IF fa = 0
       THEN UNCHANGED <<vmmap, mem, stats, kmemLog, panic>>
       ELSE IF KmemFreeOK(vmmap, fa)
       THEN /\ vmmap' = KmemFreeMap(vmmap, fa)
            /\ mem' = KmemFreeMem(mem, fa)
            /\ stats' = [stats EXCEPT
                  !.gzalloc_freed = @ + rounded_size,
                  !.gzalloc_wasted = @ - (rounded_size - elem_size)]
            /\ kmemLog' = Append(kmemLog, fa)
            /\ UNCHANGED panic
       ELSE /\ panic' = Panic("kmem_free", fa, 0, 0)
            /\ kmemLog' = Append(kmemLog, fa)
            /\ UNCHANGED <<vmmap, mem, stats>>
    /\ IF panic'.kind = "none"
       THEN /\ pc' = [pc EXCEPT ![t] = "idle"]
            /\ loc' = [loc EXCEPT ![t] = L0]
       ELSE UNCHANGED <<pc, loc>>
    \* line 548: kmem_free of the evicted range
    /\ hist' = [hist EXCEPT !.held =
          @ \/ (loc[t].free_addr # 0 /\ zlock' = t)]
    /\ UNCHANGED <<cfgvars, phase, gzalloc_reserve, gzalloc_reserve_size,
                   zone, obj, freeLog, writes, emptyCalls>>

(* -------------------------------------------- gzalloc_empty_free_cache --- *)
\* lines 195-202: snapshot the ring and reset it, under the zone lock
\* mutation: the ring is not cleared, only the index is reset
EmptyResetIndexOnly(gz) == [gz EXCEPT !.gzfc_index = 0]
\* lines 201-202: bzero of the ring, gzfc_index = 0
EmptyReset(gz) == [gz EXCEPT !.gzfc = ZeroRing(gzfc_size), !.gzfc_index = 0]

gzalloc_empty_snapshot(t) ==
    /\ Running /\ Active(t) /\ Idle(t)
    /\ zone.tracked /\ gzfc_size > 0 /\ phase > 0
    \* bound: repeated calls are made back to back
    /\ emptyCalls < MaxEmpty /\ (emptyCalls > 0 => hist.lastEmpty)
    /\ zlock = 0
    /\ zlock' = t
    /\ loc' = [loc EXCEPT ![t] = [L0 EXCEPT !.copy = zone.gzfc]]
    /\ zone' = EmptyReset(zone)
    /\ pc' = [pc EXCEPT ![t] = "e_free"]
    /\ emptyCalls' = emptyCalls + 1
    /\ hist' = [hist EXCEPT !.lastFreed = 0, !.lastEmpty = FALSE, !.pd = ""]
    /\ UNCHANGED <<cfgvars, phase, gzalloc_reserve, gzalloc_reserve_size,
                   vmmap, mem, stats, panic, obj, freeLog, kmemLog, writes>>

\* mutation: the loop releases nothing
EmptyVictimsNone(copy) == << >>
\* the entries of the snapshot that the loop of lines 206-215 releases
EmptyVictims(copy) ==
    SelectSeq(copy, LAMBDA a : a # 0 /\ kmem_range_contains(a))

RECURSIVE KmemFreeAllMap(_, _)
KmemFreeAllMap(vm, victims) ==
    IF victims = << >> THEN vm
    ELSE KmemFreeAllMap(KmemFreeMap(vm, Head(victims)), Tail(victims))
RECURSIVE KmemFreeAllMem(_, _)
KmemFreeAllMem(m, victims) ==
    IF victims = << >> THEN m
    ELSE KmemFreeAllMem(KmemFreeMem(m, Head(victims)), Tail(victims))
\* the first entry whose kmem_free fails, 0 if none
RECURSIVE KmemFreeAllBad(_, _)
KmemFreeAllBad(vm, victims) ==
    IF victims = << >> THEN 0
    ELSE IF ~KmemFreeOK(vm, Head(victims)) THEN Head(victims)
    ELSE KmemFreeAllBad(KmemFreeMap(vm, Head(victims)), Tail(victims))

\* lines 203-215: unlock, release every cached range
gzalloc_empty_release(t) ==
    /\ Running /\ pc[t] = "e_free"
    /\ zlock' = ZoneUnlock(zlock, t)
    /\ LET victims == EmptyVictims(loc[t].copy)
           bad == KmemFreeAllBad(vmmap, victims)
       IN
       IF bad # 0
       THEN /\ panic' = Panic("kmem_free", bad, 0, 0)
            /\ UNCHANGED <<vmmap, mem, stats, kmemLog, pc, loc>>
       ELSE /\ vmmap' = KmemFreeAllMap(vmmap, victims)
            /\ mem' = KmemFreeAllMem(mem, victims)
            /\ stats' = [stats EXCEPT
                  !.gzalloc_freed = @ + Len(victims) * rounded_size,
                  !.gzalloc_wasted =
                      @ - Len(victims) * (rounded_size - elem_size)]
            /\ kmemLog' = kmemLog \o victims
            /\ loc' = [loc EXCEPT ![t].freed = Len(victims), ![t].copy = << >>]
            /\ pc' = [pc EXCEPT ![t] = "e_count"]
            /\ UNCHANGED panic
    \* line 209: kmem_free of every cached range
    /\ hist' = [hist EXCEPT !.held =
          @ \/ (EmptyVictims(loc[t].copy) # << >> /\ zlock' = t)]
    /\ UNCHANGED <<cfgvars, phase, gzalloc_reserve, gzalloc_reserve_size,
                   zone, obj, freeLog, writes, emptyCalls>>

\* lines 223-225: under the zone lock, adjust the zone counters
gzalloc_empty_count(t) ==
    /\ Running /\ pc[t] = "e_count"
    /\ zlock = 0
    /\ zlock' = t
    /\ zone' = [zone EXCEPT !.z_elems_free = @ + loc[t].freed,
                            !.z_wired_cur = @ - loc[t].freed]
    /\ pc' = [pc EXCEPT ![t] = "e_unlock"]
    /\ UNCHANGED <<cfgvars, hist, phase, gzalloc_reserve, gzalloc_reserve_size,
                   vmmap, mem, stats, loc, panic, obj, freeLog, kmemLog,
                   writes, emptyCalls>>

\* lines 226-228
gzalloc_empty_return(t) ==
    /\ Running /\ pc[t] = "e_unlock"
    /\ zlock' = ZoneUnlock(zlock, t)
    /\ pc' = [pc EXCEPT ![t] = "idle"]
    /\ loc' = [loc EXCEPT ![t] = L0]
    /\ hist' = [hist EXCEPT !.lastEmpty = TRUE]
    /\ UNCHANGED <<cfgvars, phase, gzalloc_reserve, gzalloc_reserve_size,
                   vmmap, mem, zone, stats, panic, obj, freeLog, kmemLog,
                   writes, emptyCalls>>

(* ---------------------------------------------- gzalloc_element_size --- *)
\* vm_map_lookup_entry: the entry [vme_start, vme_end) holding a
EsEntryEnd(b) == b + RangeSize
\* lines 584-591: the 32-bit words of the entry in scan order, and those at
\* which the scan stops: the word is the signature, or reading it faults
EsWords(b) == {b + U32_SIZE * k : k \in 0..((RangeSize \div U32_SIZE) - 1)}
EsStops(b) ==
    {w \in EsWords(b) :
        Access(w, "r") = "fault" \/ PeekBytes(w, U32_SIZE) = GZALLOC_SIGNATURE}
\* mutation: the header is taken to start at the signature word
EsHeaderAtSig(b) == SetMin(EsStops(b))
\* lines 596-598: the header ends right after the signature word
EsHeaderOverflow(b) == SetMin(EsStops(b)) + U32_SIZE - GZHEADER_SIZE
\* line 578: the copy at the trailing edge of the entry
EsHeaderUnderflow(b) == EsEntryEnd(b) - GZHEADER_SIZE

\* the outcome of gzalloc_element_size(a): kind "ret" with the return value
\* and out-parameters, or the kind of panic
EsResult(r, z, sz) == [kind |-> "ret", ret |-> r, z |-> z, sz |-> sz]
EsPanic(k) == [kind |-> k, ret |-> "none", z |-> << >>, sz |-> 0]
EsFromHeader(gzh) ==
    LET sigAt == gzh + PTR_SIZE + U32_SIZE IN
    IF Access(sigAt, "r") = "fault" THEN EsPanic("fault_r")
    ELSE IF PeekBytes(sigAt, U32_SIZE) # GZALLOC_SIGNATURE THEN EsPanic("sig")
    \* zone_elem_size(gzh->gzone), gzh->gzone->z_gzalloc_tracked: the
    \* recorded owner is dereferenced
    ELSE IF PeekBytes(gzh, PTR_SIZE) # ZonePtr THEN EsPanic("fault_r")
    ELSE IF ~zone.tracked THEN EsPanic("zone")
    ELSE EsResult("TRUE", ZonePtr, elem_size)
ElementSize(a) ==
    IF ~(gzalloc_mode /\ kmem_range_contains(a)) THEN EsResult("FALSE", << >>, 0)
    ELSE IF EntryOf(a) = {} THEN EsPanic("nomapentry")
    ELSE LET b == CHOOSE x \in EntryOf(a) : TRUE IN
         IF gzalloc_uf_mode THEN EsFromHeader(EsHeaderUnderflow(b))
         ELSE IF EsStops(b) = {} THEN EsPanic("sigmissing")
         ELSE IF Access(SetMin(EsStops(b)), "r") = "fault"
              THEN EsPanic("fault_r")
         ELSE EsFromHeader(EsHeaderOverflow(b))

\* one call; a caller asks once (the result is kept in esz)
gzalloc_element_size(t, a) ==
    /\ Running /\ configured /\ Active(t) /\ Idle(t)
    /\ esz = NoResult
    /\ LET r == ElementSize(a) IN
       IF r.kind = "ret"
       THEN /\ esz' = [a |-> a, ret |-> r.ret, z |-> r.z, sz |-> r.sz]
            /\ UNCHANGED panic
       ELSE /\ panic' = Panic(r.kind, a, 0, 0)
            /\ esz' = [a |-> a, ret |-> "panic", z |-> << >>, sz |-> 0]
    /\ UNCHANGED <<gzalloc_uf_mode, gzalloc_prot, gzalloc_consistency_checks,
                   gzalloc_dfree_check, gzfc_size, elem_size, nthreads,
                   gzalloc_mode, gzalloc_min, gzalloc_max, gznamedzone,
                   bootargs, configured, z_name, sos, gztrackzone, phase,
                   gzalloc_reserve, gzalloc_reserve_size, vmmap, mem, zone,
                   zlock, stats, pc, loc, obj, freeLog, kmemLog, writes,
                   emptyCalls, hist>>

(* ------------------------------------------------- the zone's callers --- *)
\* a caller stores one byte at p + off, p a pointer it got from gzalloc_alloc
WriteOffsets == {-1, 0, elem_size}

caller_write(t, i, off) ==
    /\ Running /\ Active(t) /\ Idle(t)
    /\ i \in 1..Len(obj) /\ i = Victim
    /\ writes < MaxWrites
    /\ writes' = writes + 1
    /\ LET a == obj[i].p + off IN
       IF Access(a, "w") = "ok"
       THEN /\ mem' = IF a \in DOMAIN mem THEN [mem EXCEPT ![a] = WriteByte]
                      ELSE mem
            /\ UNCHANGED panic
       ELSE /\ panic' = Panic("fault_w", a, 0, 0)
            /\ UNCHANGED mem
    /\ hist' = [hist EXCEPT !.lastFreed = 0, !.lastEmpty = FALSE, !.pd = ""]
    /\ UNCHANGED <<cfgvars, phase, gzalloc_reserve, gzalloc_reserve_size,
                   vmmap, zone, zlock, stats, pc, loc, obj, freeLog, kmemLog,
                   emptyCalls>>

\* a caller loads one byte at p + off
caller_read(t, i, off) ==
    /\ Running /\ Active(t) /\ Idle(t)
    /\ i \in 1..Len(obj) /\ i = Victim
    /\ LET a == obj[i].p + off IN
       IF Access(a, "r") = "ok"
       THEN UNCHANGED panic
       ELSE panic' = Panic("fault_r", a, 0, 0)
    /\ UNCHANGED <<cfgvars, hist, phase, gzalloc_reserve, gzalloc_reserve_size,
                   vmmap, mem, zone, zlock, stats, pc, loc, obj, freeLog,
                   kmemLog, writes, emptyCalls>>

Next ==
    \/ startup_advance
    \/ gzalloc_zone_init
    \/ \E t \in Threads : zone.tracked /\ gzalloc_alloc_carve(t, FALSE, FALSE)
    \/ \E t \in Threads : gzalloc_alloc_lock(t)
    \/ \E t \in Threads : gzalloc_alloc_return(t)
    \/ \E t \in Threads, i \in 1..MaxAllocs : gzalloc_free_entry(t, i)
    \/ \E t \in Threads : gzalloc_free_dfree(t)
    \/ \E t \in Threads : gzalloc_free_check(t, FALSE)
    \/ \E t \in Threads : gzalloc_free_insert(t)
    \/ \E t \in Threads : gzalloc_free_release(t)
    \/ \E t \in Threads : gzalloc_empty_snapshot(t)
    \/ \E t \in Threads : gzalloc_empty_release(t)
    \/ \E t \in Threads : gzalloc_empty_count(t)
    \/ \E t \in Threads : gzalloc_empty_return(t)
    \/ \E t \in Threads, i \in 1..MaxAllocs, off \in WriteOffsets :
          caller_write(t, i, off)
    \/ \E t \in Threads, i \in 1..MaxAllocs, off \in WriteOffsets :
          caller_read(t, i, off)

Spec == Init /\ [][Next]_vars

(* two kernel threads, after boot: the zone exists, kmem and vm_page_zone
   are up; callers only allocate, free and empty the cache *)
InitMT ==
    /\ gzalloc_uf_mode \in BOOLEAN
    /\ gzalloc_prot \in {"none", "read"}
    /\ gzalloc_consistency_checks \in BOOLEAN
    /\ gzalloc_dfree_check \in BOOLEAN
    /\ gzfc_size \in 0..MaxFcSize
    /\ elem_size \in ElemSizes
    /\ Configured0
    /\ gztrackzone = FALSE
    /\ phase = 2
    /\ gzalloc_reserve = RESERVE_BASE
    /\ gzalloc_reserve_size = ReservePages * PAGE_SIZE
    /\ vmmap = << >>
    /\ mem = << >>
    /\ zone = [Zone0 EXCEPT !.inited = TRUE, !.tracked = TRUE,
                            !.gzfc = ZeroRing(gzfc_size)]
    /\ zlock = 0
    /\ stats = Stats0
    /\ pc = [t \in Threads |-> "idle"]
    /\ loc = [t \in Threads |-> L0]
    /\ panic = NoPanic
    /\ obj = << >>
    /\ freeLog = << >>
    /\ kmemLog = << >>
    /\ writes = 0
    /\ emptyCalls = 0
    /\ hist = Hist0
    /\ nthreads = 2

NextMT ==
    \/ \E t \in Threads : zone.tracked /\ gzalloc_alloc_carve(t, FALSE, FALSE)
    \/ \E t \in Threads : gzalloc_alloc_lock(t)
    \/ \E t \in Threads : gzalloc_alloc_return(t)
    \/ \E t \in Threads, i \in 1..MaxAllocs : gzalloc_free_entry(t, i)
    \/ \E t \in Threads : gzalloc_free_dfree(t)
    \/ \E t \in Threads : gzalloc_free_check(t, FALSE)
    \/ \E t \in Threads : gzalloc_free_insert(t)
    \/ \E t \in Threads : gzalloc_free_release(t)
    \/ \E t \in Threads : emptyCalls = 0 /\ gzalloc_empty_snapshot(t)
    \/ \E t \in Threads : gzalloc_empty_release(t)
    \/ \E t \in Threads : gzalloc_empty_count(t)
    \/ \E t \in Threads : gzalloc_empty_return(t)

SpecMT == InitMT /\ [][NextMT]_vars

(* ---------------------------------------- configuration and tracking --- *)
\* boot-args tried: every flag token present or absent, every value token
\* absent or carrying one of a few values
SizeArgs == {PAGE_SIZE - GZHEADER_SIZE}
FcArgs == {0, 1}
BootArgSets ==
    [gzalloc_mode : BOOLEAN,
     gzalloc_min : {-1} \cup SizeArgs,
     gzalloc_max : {-1} \cup SizeArgs,
     gzalloc_size : {-1} \cup SizeArgs,
     gzalloc_fc_size : {-1} \cup FcArgs,
     gzalloc_wp : BOOLEAN,
     gzalloc_uf_mode : BOOLEAN,
     gzalloc_no_dfree_check : BOOLEAN,
     gzalloc_noconsistency : BOOLEAN,
     gzname : {"", "vm.pages"},
     nogzalloc_mode : BOOLEAN,
     DEBUG : BOOLEAN]

\* the state before gzalloc_configure: the initialisers of lines 96-122;
\* at most one of the three checking tokens is passed
InitCfg ==
    /\ bootargs \in BootArgSets
    /\ Cardinality({f \in {"gzalloc_wp", "gzalloc_no_dfree_check",
                            "gzalloc_noconsistency"} : bootargs[f]}) <= 1
    /\ z_name \in ZoneNames
    /\ elem_size \in ElemSizes
    /\ configured = FALSE
    /\ esz = NoResult
    /\ sos = NoRings
    /\ gzalloc_mode = FALSE
    /\ gzalloc_min = U32_MAX
    /\ gzalloc_max = 0
    /\ gzalloc_uf_mode = FALSE
    /\ gzalloc_consistency_checks = TRUE
    /\ gzalloc_dfree_check = TRUE
    /\ gzalloc_prot = "none"
    /\ gzfc_size = GZFC_DEFAULT_SIZE
    /\ gznamedzone = ""
    /\ gztrackzone = FALSE
    /\ phase = 0
    /\ gzalloc_reserve = 0
    /\ gzalloc_reserve_size = 0
    /\ vmmap = << >>
    /\ mem = << >>
    /\ zone = Zone0
    /\ zlock = 0
    /\ stats = Stats0
    /\ pc = [t \in Threads |-> "idle"]
    /\ loc = [t \in Threads |-> L0]
    /\ panic = NoPanic
    /\ obj = << >>
    /\ freeLog = << >>
    /\ kmemLog = << >>
    /\ writes = 0
    /\ emptyCalls = 0
    /\ hist = Hist0
    /\ nthreads = 1

\* addresses asked about: below the reserve, in the reserve, in the arena
CfgQueries == {0, RESERVE_BASE + PAGE_SIZE, ARENA_MIN + PTR_SIZE}

\* configuration, zone creation and one allocation attempt that is made
\* whether or not the zone is tracked
NextCfg ==
    \/ gzalloc_configure
    \/ configured /\ startup_advance
    \/ gzalloc_zone_init
    \/ obj = << >> /\ gzalloc_alloc_carve(1, FALSE, FALSE)
    \/ gzalloc_alloc_lock(1)
    \/ gzalloc_alloc_return(1)
    \/ \E a \in CfgQueries : gzalloc_element_size(1, a)

SpecCfg == InitCfg /\ [][NextCfg]_vars

(* ============================================================ claims === *)
Live(i) == i \in 1..Len(obj) /\ obj[i].nfree = 0
PostVM(i) == ~obj[i].early
RingSet == {zone.gzfc[k] : k \in 1..Len(zone.gzfc)} \ {0}
FreePcs == {"f_entry", "f_dfree", "f_check", "f_insert", "f_release"}
AllocPcs == {"a_lock", "a_unlock"}

\* bases of the allocations inserted into the ring, in insertion order
FreedBases == [k \in 1..Len(freeLog) |-> obj[freeLog[k]].base]
LastN(q, n) == SubSeq(q, Len(q) - n + 1, Len(q))
SeqSet(q) == {q[k] : k \in 1..Len(q)}
Min2(a, b) == IF a < b THEN a ELSE b
Max2(a, b) == IF a > b THEN a ELSE b

(* C1: with capacity N >= 1, an initially empty ring and no
   gzalloc_empty_free_cache, after n completed frees of distinct post-VM
   allocations the ranges passed to kmem_free are exactly the n - N earliest
   freed bases, in the order they were freed, and the ring holds exactly the
   min(n, N) most recently freed bases. *)
C1_Scope ==
    /\ Running /\ pc[1] = "idle" /\ nthreads = 1 /\ zone.tracked
    /\ gzfc_size >= 1 /\ emptyCalls = 0 /\ Refrees = 0
C1_RingIsFifo ==
    C1_Scope =>
      LET n == Len(freeLog)
          N == gzfc_size
      IN /\ n = Cardinality({i \in 1..Len(obj) : PostVM(i) /\ obj[i].nfree = 1})
         /\ kmemLog = SubSeq(FreedBases, 1, Max2(n - N, 0))
         /\ RingSet = SeqSet(LastN(FreedBases, Min2(n, N)))
         /\ Cardinality(RingSet) = Min2(n, N)
         /\ Cardinality({k \in 1..N : zone.gzfc[k] = 0}) = N - Min2(n, N)
C1_Witness ==
    /\ C1_Scope /\ gzfc_size = 2 /\ Len(freeLog) = 3 /\ Len(kmemLog) = 1

(* C2: with the double-free check enabled, a second gzalloc_free of the same
   pointer directly after the first one completed panics with the
   double-free error, for allocations made before or after the VM is ready. *)
RefreeOfVictim == Len(obj) >= Victim /\ obj[Victim].nfree = 2 /\ hist.b2b
C2_Original ==
    (gzalloc_dfree_check /\ RefreeOfVictim) =>
        IF Running THEN pc[1] = "f_dfree" ELSE panic.kind = "dfree"
(* C2 amended: for a post-VM allocation of a zone with fc_size >= 1 the
   second free panics with the double-free error, reporting the base, the
   current insertion index and a ring slot that holds the base. *)
C2_DoubleFreePanics ==
    (gzalloc_dfree_check /\ gzfc_size >= 1 /\ RefreeOfVictim /\ PostVM(Victim)) =>
        IF Running THEN pc[1] = "f_dfree"
        ELSE /\ panic.kind = "dfree"
             /\ panic.addr = obj[Victim].base
             /\ panic.idx = zone.gzfc_index
             /\ panic.gd \in 0..(gzfc_size - 1)
             /\ zone.gzfc[panic.gd + 1] = obj[Victim].base
C2_Witness ==
    /\ panic.kind = "dfree" /\ RefreeOfVictim /\ PostVM(Victim)
    /\ gzalloc_consistency_checks

(* C3: with the double-free check disabled, consistency checks on and
   fc_size >= 1, a second free of a pointer whose first free completed
   panics (page fault or consistency-check panic) before the base is
   inserted a second time, in unmap mode and in write-protect mode. *)
C3_Scope ==
    /\ ~gzalloc_dfree_check /\ gzalloc_consistency_checks /\ gzfc_size >= 1
    /\ Len(obj) >= Victim /\ obj[Victim].nfree = 2
C3_Original ==
    C3_Scope =>
        IF Running THEN pc[1] = "f_check"
        ELSE panic.kind \in {"fault_r", "sig", "zone", "size", "fill"}
(* C3 amended: this holds when freed ranges are unmapped (gzalloc_prot =
   VM_PROT_NONE), for a post-VM allocation whose range has not been handed
   out again: the second free takes a page fault on the header before
   anything is inserted. *)
NotReallocated(i) == \A j \in (i + 1)..Len(obj) : obj[j].base # obj[i].base
C3_RefreeFaultsWhenUnmapped ==
    (C3_Scope /\ gzalloc_prot = "none" /\ PostVM(Victim)
       /\ NotReallocated(Victim)) =>
        /\ IF Running THEN pc[1] = "f_check"
           ELSE panic.kind = "fault_r" /\ pc[1] = "f_check"
        /\ Cardinality({k \in 1..Len(freeLog) : freeLog[k] = Victim}) = 1
C3_Witness ==
    /\ C3_Scope /\ gzalloc_prot = "none" /\ PostVM(Victim)
    /\ panic.kind = "fault_r" /\ pc[1] = "f_check"
    /\ obj[Victim].base \in RingSet

(* C4: after gzalloc_alloc returns p, the header located from p (p - H in
   overflow mode, p + E in underflow mode) holds element_size = E, the
   signature and owner = the allocating zone, in both boot phases. *)
HdrAddr(i) ==
    IF gzalloc_uf_mode THEN obj[i].p + elem_size ELSE obj[i].p - GZHEADER_SIZE
HdrHolds(i, owner) ==
    /\ PeekBytes(HdrAddr(i), PTR_SIZE) = owner
    /\ PeekBytes(HdrAddr(i) + PTR_SIZE, U32_SIZE) = LEBytes(elem_size, U32_SIZE)
    /\ PeekBytes(HdrAddr(i) + PTR_SIZE + U32_SIZE, U32_SIZE) = GZALLOC_SIGNATURE
Untouched(i) == Live(i) /\ writes = 0 /\ Refrees = 0
C4_Original ==
    \A i \in 1..Len(obj) : Untouched(i) => HdrHolds(i, ZonePtr)
(* C4 amended: the owner is the allocating zone for an allocation made
   after the VM is ready and the sentinel GZDEADZONE for one made before. *)
C4_HeaderAfterAlloc ==
    \A i \in 1..Len(obj) :
        Untouched(i) =>
            HdrHolds(i, IF obj[i].early THEN GZDEADZONE ELSE ZonePtr)
C4_Witness ==
    /\ Len(obj) >= 2 /\ Untouched(1) /\ Untouched(2)
    /\ obj[1].early /\ PostVM(2) /\ pc[1] = "idle"

(* C5: in overflow mode, after gzalloc_alloc returns p every byte of
   [trunc_page(p), header_start) equals the fill pattern 0x67. *)
C5_Original ==
    ~gzalloc_uf_mode =>
        \A i \in 1..Len(obj) :
            Untouched(i) =>
                \A a \in trunc_page(obj[i].p)..(HdrAddr(i) - 1) :
                    Peek(a) = gzalloc_fill_pattern

(* C6: with consistency checks on and 1 <= E <= page - H, a gzalloc_free
   of a live allocation whose caller wrote nothing out of bounds does not
   panic. *)
C6_Original ==
    (/\ gzalloc_consistency_checks
     /\ 1 <= elem_size /\ elem_size <= PAGE_SIZE - GZHEADER_SIZE
     /\ writes = 0 /\ Refrees = 0) =>
        (~Running => pc[1] \notin FreePcs)

(* C7: the page adjacent to a live allocation (after the element in
   overflow mode, before it in underflow mode) faults on every access, in
   every boot phase. *)
AdjPage(i) ==
    IF gzalloc_uf_mode THEN (obj[i].p - PAGE_SIZE)..(obj[i].p - 1)
    ELSE (obj[i].p + elem_size)..(obj[i].p + elem_size + PAGE_SIZE - 1)
Guarded(i) ==
    \A a \in AdjPage(i) : Access(a, "r") = "fault" /\ Access(a, "w") = "fault"
C7_Original ==
    \A i \in 1..Len(obj) : (Live(i) /\ Refrees = 0) => Guarded(i)
(* C7 amended: this holds for allocations made after the VM is ready;
   an early allocation has a wasted, accessible page instead. *)
C7_GuardPageFaults ==
    \A i \in 1..Len(obj) : (Live(i) /\ Refrees = 0 /\ PostVM(i)) => Guarded(i)
C7_Witness ==
    /\ Live(Victim) /\ PostVM(Victim)
    /\ panic.kind = "fault_r" /\ pc[1] = "idle"
    /\ panic.addr \in AdjPage(Victim)

(* C8: a one-byte store next to a live element (p[E] in overflow mode,
   p[-1] in underflow mode) goes through and lies inside the region that
   gzalloc_free scans for the fill pattern. *)
Adj(i) == IF gzalloc_uf_mode THEN obj[i].p - 1 ELSE obj[i].p + elem_size
C8_Original ==
    /\ \A i \in 1..Len(obj) : Live(i) => Adj(i) \in CheckRegion(obj[i].p)
    /\ ~(Live(Victim) /\ panic.kind = "fault_w" /\ panic.addr = Adj(Victim))
(* C8 amended: that byte is never inside the scanned region; for an
   allocation made after the VM is ready it lies in the guard page, so the
   store itself faults. *)
C8_AdjacentByteIsGuard ==
    \A i \in 1..Len(obj) :
        (Live(i) /\ Refrees = 0) =>
            /\ Adj(i) \notin CheckRegion(obj[i].p)
            /\ PostVM(i) => Access(Adj(i), "w") = "fault"
C8_Witness ==
    /\ Live(Victim) /\ PostVM(Victim)
    /\ panic = Panic("fault_w", Adj(Victim), 0, 0)

(* C9: while a post-VM allocation is freed and still held in the ring,
   every access to its element, read as well as write, faults, in unmap
   mode and in write-protect mode. *)
Cached(i) ==
    /\ i \in 1..Len(obj) /\ PostVM(i) /\ obj[i].nfree >= 1
    /\ obj[i].base \in RingSet /\ Refrees = 0
Element(i) == obj[i].p..(obj[i].p + elem_size - 1)
C9_Original ==
    \A i \in 1..Len(obj) :
        Cached(i) =>
            \A a \in Element(i) :
                Access(a, "r") = "fault" /\ Access(a, "w") = "fault"
(* C9 amended: every store faults in both modes; a load faults in unmap
   mode only (under -gzalloc_wp the freed element stays readable). *)
C9_FreedElementProtected ==
    \A i \in 1..Len(obj) :
        Cached(i) =>
            \A a \in Element(i) :
                /\ Access(a, "w") = "fault"
                /\ (Access(a, "r") = "fault") <=> (gzalloc_prot = "none")
C9_Witness ==
    /\ Cached(Victim) /\ gzalloc_prot = "read" /\ elem_size > 0
    /\ panic = Panic("fault_w", obj[Victim].p, 0, 0)

(* C10: in every state of every interleaving of gzalloc_alloc, gzalloc_free
   and gzalloc_empty_free_cache by callers that free each allocation at most
   once, every address in the ring is a mapped range whose protection has
   been lowered to gzalloc_prot, that no caller holds and that is not being
   handed out. *)
C10_RingEntriesProtected ==
    Refrees = 0 =>
        \A b \in RingSet :
            /\ b \in DOMAIN vmmap
            /\ vmmap[b] = gzalloc_prot
            /\ \A i \in 1..Len(obj) : obj[i].base = b => obj[i].nfree >= 1
            /\ \A t \in Threads : pc[t] \in AllocPcs => loc[t].saddr # b
C10_Witness ==
    /\ Refrees = 0 /\ RingSet # {}
    /\ pc[1] = "e_count" /\ pc[2] = "f_release" /\ Len(kmemLog) >= 1

(* C11: gzalloc_empty_free_cache is idempotent: after one call the ring is
   all zeros with insertion index 0, and a second call made directly
   afterwards releases no range and leaves z_elems_free, z_wired_cur,
   gzalloc_freed and gzalloc_wasted unchanged. *)
EmptyPcs == {"e_free", "e_count", "e_unlock"}
AfterEmpty == emptyCalls >= 1 /\ (pc[1] \in EmptyPcs \/ hist.lastEmpty)
SecondEmptyStep ==
    emptyCalls' >= 2 /\ (pc[1] \in EmptyPcs \/ pc'[1] \in EmptyPcs)
C11_EmptyIdempotent ==
    /\ [](AfterEmpty =>
            zone.gzfc = ZeroRing(gzfc_size) /\ zone.gzfc_index = 0)
    /\ [][SecondEmptyStep =>
            /\ panic' = NoPanic
            /\ kmemLog' = kmemLog /\ vmmap' = vmmap
            /\ zone'.z_elems_free = zone.z_elems_free
            /\ zone'.z_wired_cur = zone.z_wired_cur
            /\ stats'.gzalloc_freed = stats.gzalloc_freed
            /\ stats'.gzalloc_wasted = stats.gzalloc_wasted]_vars
C11_Witness ==
    /\ emptyCalls = 2 /\ pc[1] = "idle" /\ hist.lastEmpty
    /\ Len(kmemLog) >= 1 /\ panic = NoPanic

(* C12: while the engine is disabled every entry point is a no-op:
   gzalloc_zone_init, gzalloc_alloc, gzalloc_free and
   gzalloc_empty_free_cache change no zone field, ring, reserve, arena
   mapping or global counter and return normally, and gzalloc_element_size
   returns FALSE for every address. *)
Disabled == configured /\ ~gzalloc_mode
AllAddrs == 0..ZoneAddr
NotMine == EsResult("FALSE", << >>, 0)
EngineUntouched ==
    /\ [zone' EXCEPT !.inited = TRUE] = [zone EXCEPT !.inited = TRUE]
    /\ UNCHANGED <<gzalloc_reserve, gzalloc_reserve_size, vmmap, mem, stats,
                   panic, gztrackzone>>
EarlyFree ==
    /\ pc[1] \in FreePcs /\ loc[1].i \in 1..Len(obj) /\ obj[loc[1].i].early
EarlyFrame ==
    /\ vmmap' = vmmap /\ kmemLog' = kmemLog /\ freeLog' = freeLog
    /\ zone' = zone
    /\ stats'.gzalloc_freed = stats.gzalloc_freed
EarlyNeverCached ==
    \A i \in 1..Len(obj) : obj[i].early =>
        /\ obj[i].base \notin RingSet
        /\ EntryOf(obj[i].base) = {}
        /\ Running => obj[i].base \notin SeqSet(kmemLog)
C13_EarlyAllocLeaks ==
    /\ []EarlyNeverCached
    /\ [][/\ (EarlyFree /\ phase >= 1 /\ pc'[1] = "idle") =>
              /\ pc[1] = "f_check"
              /\ EarlyFrame
              /\ stats' = [stats EXCEPT
                    !.gzalloc_early_free = @ + rounded_size]
          /\ (EarlyFree /\ phase >= 1 /\ pc[1] = "f_check"
                /\ PeekBytes(FreeGzh(loc[1].addr), PTR_SIZE) = GZDEADZONE
                /\ panic' = NoPanic) => pc'[1] = "idle"
          /\ (EarlyFree' /\ pc'[1] \in {"f_dfree", "f_check"}) =>
              (EarlyFrame /\ stats' = stats)]_vars
C13_Witness ==
    /\ Len(obj) >= 1 /\ obj[1].early /\ obj[1].nfree = 1 /\ phase = 2
    /\ pc[1] = "idle" /\ panic = NoPanic
    /\ stats.gzalloc_early_free = rounded_size
    /\ stats.gzalloc_freed = 0 /\ kmemLog = << >>

(* --------------------------------- callers with preemption disabled --- *)
\* one thread through boot; gzalloc_alloc and gzalloc_free are called with
\* preemption enabled or disabled, gzalloc_alloc with or without Z_NOWAIT
NextPD ==
    \/ startup_advance
    \/ gzalloc_zone_init
    \/ \E preempt \in BOOLEAN, nowait \in BOOLEAN :
          zone.tracked /\ gzalloc_alloc_carve(1, preempt, nowait)
    \/ gzalloc_alloc_lock(1)
    \/ gzalloc_alloc_return(1)
    \/ \E i \in 1..MaxAllocs : gzalloc_free_entry(1, i)
    \/ gzalloc_free_dfree(1)
    \/ \E preempt \in BOOLEAN : gzalloc_free_check(1, preempt)
    \/ gzalloc_free_insert(1)
    \/ gzalloc_free_release(1)

SpecPD == Init /\ [][NextPD]_vars

(* C14: gzalloc_alloc called with preemption disabled and Z_NOWAIT returns
   null and changes no state (reserve, arena, zone, counters,
   pdzalloc_count); called with preemption disabled and without Z_NOWAIT it
   allocates as it does with preemption enabled and adds exactly one to
   pdzalloc_count. *)
NullReturnStep == hist.pd # "nowait" /\ hist'.pd = "nowait"
AllocCarveStep == pc[1] = "idle" /\ pc'[1] = "a_lock"
AllocCarved ==
    /\ loc'[1].addr = AllocAddr(loc'[1].saddr)
    /\ zone' = zone /\ obj' = obj /\ panic' = panic
    /\ IF phase < 2
       THEN /\ loc'[1].saddr = gzalloc_reserve
            /\ gzalloc_reserve' = gzalloc_reserve + rounded_size + PAGE_SIZE
            /\ gzalloc_reserve_size' =
                   gzalloc_reserve_size - (rounded_size + PAGE_SIZE)
            /\ stats'.gzalloc_early_alloc =
                   stats.gzalloc_early_alloc + rounded_size
            /\ vmmap' = vmmap
       ELSE /\ loc'[1].saddr \in (DOMAIN vmmap') \ (DOMAIN vmmap)
            /\ UNCHANGED <<gzalloc_reserve, gzalloc_reserve_size>>
            /\ stats'.gzalloc_early_alloc = stats.gzalloc_early_alloc
C14_PreemptionDisabledAlloc ==
    [][/\ NullReturnStep =>
             UNCHANGED <<cfgvars, phase, gzalloc_reserve, gzalloc_reserve_size,
                         vmmap, mem, zone, zlock, stats, pc, loc, panic, obj,
                         freeLog, kmemLog, writes, emptyCalls>>
       /\ AllocCarveStep =>
             /\ AllocCarved
             /\ hist'.pd \in {"", "wait"}
             /\ stats'.pdzalloc_count = stats.pdzalloc_count +
                    (IF hist'.pd = "wait" THEN 1 ELSE 0)
       /\ (pc[1] = "idle" /\ hist'.pd = "wait" /\ hist.pd # "wait") =>
             /\ stats'.pdzalloc_count = stats.pdzalloc_count + 1
             /\ pc'[1] = "a_lock" \/ panic'.kind = "reserve"]_vars
C14_Witness ==
    /\ hist.pd = "nowait" /\ stats.pdzalloc_count = 1 /\ Len(obj) = 1
    /\ pc[1] = "idle" /\ panic = NoPanic /\ phase = 2 /\ ~obj[1].early

(* C15: after gzalloc_zone_init(z) with the engine enabled, z is tracked
   iff its name matches the configured named zone or
   gzalloc_min <= E(z) <= gzalloc_max, and z has a free-cache ring iff it is
   tracked and gzfc_size > 0. *)
InSizeRange == gzalloc_min <= elem_size /\ elem_size <= gzalloc_max
C15_ZoneInitTracking ==
    (Running /\ zone.inited /\ gzalloc_mode) =>
        /\ zone.tracked <=> (track_this_zone(z_name, gznamedzone) \/ InSizeRange)
        /\ (zone.gzfc # << >>) <=> (zone.tracked /\ gzfc_size > 0)
        /\ zone.gzfc # << >> => Len(zone.gzfc) = gzfc_size
C15_Witness ==
    /\ Running /\ zone.inited /\ gzalloc_mode
    /\ track_this_zone(z_name, gznamedzone) /\ ~InSizeRange
    /\ zone.tracked /\ zone.gzfc = ZeroRing(gzfc_size) /\ gzfc_size > 0

(* C16: whenever -nogzalloc_mode is among the boot tokens the engine ends
   configuration disabled, whichever of -gzalloc_mode, gzalloc_min,
   gzalloc_max, gzalloc_size and gzname are also present, and no reserve
   memory is stolen. *)
C16_DisableTokenWins ==
    (configured /\ bootargs.nogzalloc_mode) =>
        /\ ~gzalloc_mode
        /\ gzalloc_reserve = 0 /\ gzalloc_reserve_size = 0
C16_Witness ==
    /\ configured /\ bootargs.nogzalloc_mode /\ ~gzalloc_mode
    /\ bootargs.gzalloc_mode /\ bootargs.gzalloc_min # -1
    /\ bootargs.gzalloc_max # -1 /\ bootargs.gzalloc_size # -1
    /\ bootargs.gzname # "" /\ gzalloc_reserve_size = 0

(* C17: whenever gzalloc_max=<n> is present and neither gzalloc_min nor
   gzalloc_size is given, with or without -gzalloc_mode, the engine is
   enabled and the zones tracked by size are exactly those with element
   size <= n. *)
MaxOnly ==
    /\ configured /\ bootargs.gzalloc_max # -1
    /\ bootargs.gzalloc_min = -1 /\ bootargs.gzalloc_size = -1
Sizes == 0..PAGE_SIZE
SizeTracked(e) == gzalloc_min <= e /\ e <= gzalloc_max
NotNamed == ~track_this_zone(z_name, gznamedzone)
C17_Original ==
    MaxOnly =>
        /\ gzalloc_mode
        /\ \A e \in Sizes : SizeTracked(e) <=> e <= bootargs.gzalloc_max
(* C17 amended: with gzalloc_max=<n> present, gzalloc_min, gzalloc_size and
   -nogzalloc_mode absent, the engine is enabled and the zones tracked by
   size are exactly those with element size <= n when -gzalloc_mode is
   absent, and those with GZALLOC_MIN_DEFAULT <= element size <= n when
   -gzalloc_mode is present. *)
MaxOnlyFloor == IF bootargs.gzalloc_mode THEN GZALLOC_MIN_DEFAULT ELSE 0
C17_MaxTokenRange ==
    (MaxOnly /\ ~bootargs.nogzalloc_mode) =>
        /\ gzalloc_mode
        /\ \A e \in Sizes :
              SizeTracked(e) <=>
                  (MaxOnlyFloor <= e /\ e <= bootargs.gzalloc_max)
        /\ (Running /\ zone.inited /\ NotNamed) =>
              (zone.tracked <=>
                  (MaxOnlyFloor <= elem_size
                     /\ elem_size <= bootargs.gzalloc_max))
C17_Witness ==
    /\ MaxOnly /\ ~bootargs.nogzalloc_mode /\ ~bootargs.gzalloc_mode
    /\ Running /\ zone.inited /\ NotNamed /\ zone.tracked
    /\ elem_size < GZALLOC_MIN_DEFAULT

(* ------------------------------------------------- reverse lookups --- *)
\* addresses asked about: the first and the last byte of every element
\* gzalloc_alloc has returned, whatever became of it since
EsQueries == {obj[i].p + d : i \in 1..Len(obj), d \in {0, elem_size - 1}}

\* one thread through boot allocating and freeing, and one
\* gzalloc_element_size call at any point
NextES ==
    \/ startup_advance
    \/ gzalloc_zone_init
    \/ zone.tracked /\ gzalloc_alloc_carve(1, FALSE, FALSE)
    \/ gzalloc_alloc_lock(1)
    \/ gzalloc_alloc_return(1)
    \/ \E i \in 1..MaxAllocs : gzalloc_free_entry(1, i)
    \/ gzalloc_free_dfree(1)
    \/ gzalloc_free_check(1, FALSE)
    \/ gzalloc_free_insert(1)
    \/ gzalloc_free_release(1)
    \/ \E a \in EsQueries : gzalloc_element_size(1, a)

SpecES == Init /\ [][NextES]_vars

\* a step that is a gzalloc_element_size call, and what it leaves alone
EsCall == esz' # esz
EsFrame ==
    UNCHANGED <<gzalloc_uf_mode, gzalloc_prot, gzalloc_consistency_checks,
                gzalloc_dfree_check, gzfc_size, elem_size, nthreads,
                gzalloc_mode, gzalloc_min, gzalloc_max, gznamedzone, bootargs,
                configured, z_name, sos, gztrackzone, phase, gzalloc_reserve,
                gzalloc_reserve_size, vmmap, mem, zone, zlock, stats, pc,
                loc, panic, obj, freeLog, kmemLog, writes, emptyCalls, hist>>
Within(i, a) == obj[i].p <= a /\ a < obj[i].p + elem_size
\* the latest allocation placed at the base of allocation i
Latest(i) == \A j \in 1..Len(obj) : obj[j].base = obj[i].base => j <= i

(* C18: for every live post-VM allocation p of the tracked zone, in both
   layout modes and for every offset 0 <= d < E, gzalloc_element_size(p + d)
   returns TRUE with the owning zone and E, and changes no state. *)
LiveAt(a) ==
    \E i \in 1..Len(obj) : Untouched(i) /\ PostVM(i) /\ Within(i, a)
C18_ElementSizeOfLive ==
    [][(EsCall /\ LiveAt(esz'.a)) =>
          /\ esz' = [a |-> esz'.a, ret |-> "TRUE", z |-> ZonePtr,
                     sz |-> elem_size]
          /\ EsFrame]_vars
C18_Witness ==
    /\ esz.ret = "TRUE" /\ esz.z = ZonePtr /\ esz.sz = elem_size
    /\ \E i \in 1..Len(obj) :
          Untouched(i) /\ PostVM(i) /\ esz.a = obj[i].p + elem_size - 1
    /\ ~gzalloc_uf_mode /\ elem_size > PTR_SIZE /\ panic = NoPanic

(* C19: after a freed range has been evicted from the ring and released to
   the arena, and before it is handed out again, gzalloc_element_size on an
   address inside it returns FALSE instead of panicking. *)
ReleasedAt(a) ==
    \E i \in 1..Len(obj) :
        /\ PostVM(i) /\ obj[i].nfree = 1 /\ Latest(i) /\ Refrees = 0
        /\ obj[i].base \notin RingSet /\ obj[i].base \in SeqSet(kmemLog)
        /\ Within(i, a)
C19_Original ==
    [][(EsCall /\ ReleasedAt(esz'.a)) => esz'.ret = "FALSE"]_vars
(* C19 amended: such a call does not return: the range has no map entry
   any more and gzalloc_element_size panics with "unable to locate map
   entry"; nothing else changes. *)
C19_ReleasedRangePanics ==
    [][(EsCall /\ ReleasedAt(esz'.a)) =>
          /\ esz'.ret = "panic"
          /\ panic' = Panic("nomapentry", esz'.a, 0, 0)
          /\ UNCHANGED <<vmmap, mem, zone, stats, obj, kmemLog>>]_vars
C19_Witness ==
    /\ esz.ret = "panic" /\ panic.kind = "nomapentry" /\ ReleasedAt(esz.a)
    /\ gzfc_size >= 1 /\ RingSet # {}

(* C20: for a range that was freed and is still held in the ring,
   gzalloc_element_size on its element address returns TRUE with the zone
   and E, whether freed ranges are unmapped (default) or read-only
   (-gzalloc_wp). *)
CachedAt(a) ==
    \E i \in 1..Len(obj) :
        /\ PostVM(i) /\ obj[i].nfree = 1 /\ Latest(i) /\ Refrees = 0
        /\ obj[i].base \in RingSet
        /\ a = obj[i].p
EsTrue(a) == [a |-> a, ret |-> "TRUE", z |-> ZonePtr, sz |-> elem_size]
C20_Original ==
    [][(EsCall /\ CachedAt(esz'.a)) => esz' = EsTrue(esz'.a)]_vars
(* C20 amended: under -gzalloc_wp the range stays readable and the call
   returns TRUE with the zone and E; by default the range is inaccessible
   and the call faults on its first read of the range. *)
C20_ElementSizeOfCached ==
    [][(EsCall /\ CachedAt(esz'.a)) =>
          IF gzalloc_prot = "read"
          THEN esz' = EsTrue(esz'.a) /\ EsFrame
          ELSE /\ esz'.ret = "panic"
               /\ panic'.kind = "fault_r"
               /\ UNCHANGED <<vmmap, mem, zone, stats, obj, kmemLog>>]_vars
C20_Witness ==
    /\ esz = EsTrue(esz.a) /\ CachedAt(esz.a) /\ gzalloc_prot = "read"
    /\ panic = NoPanic

(* C21: in every interleaving of gzalloc_alloc, gzalloc_free and
   gzalloc_empty_free_cache no thread calls kernel_memory_allocate,
   vm_map_protect or kmem_free while it holds the zone lock, and a thread
   that has returned holds no zone lock. *)
LockPcs == {"a_unlock", "f_check", "f_release", "e_free", "e_unlock"}
DirectFree ==
    /\ gzfc_size = 0 /\ pc[1] \in FreePcs
    /\ loc[1].i \in 1..Len(obj) /\ PostVM(loc[1].i)
DirectBase == obj[loc[1].i].base
C22_DirectRelease ==
    /\ [](gzfc_size = 0 =>
            /\ zone.gzfc = << >> /\ zone.gzfc_index = 0 /\ freeLog = << >>
            /\ pc[1] # "f_dfree")
    /\ [][(DirectFree /\ panic' = NoPanic) =>
            /\ pc[1] = "f_check" =>
                  /\ pc'[1] = "f_insert" /\ vmmap' = vmmap
                  /\ loc'[1].free_addr = DirectBase /\ zone' = zone
            /\ pc[1] = "f_insert" =>
                  /\ pc'[1] = "f_release" /\ vmmap' = vmmap
                  /\ zone'.gzfc = << >> /\ zone'.gzfc_index = 0
                  /\ zone'.z_elems_free = zone.z_elems_free + 1
                  /\ zone'.z_wired_cur = zone.z_wired_cur - 1
            /\ pc[1] = "f_release" =>
                  /\ pc'[1] = "idle"
                  /\ kmemLog' = Append(kmemLog, DirectBase)
                  /\ DirectBase \in DOMAIN vmmap
                  /\ vmmap' = [b \in (DOMAIN vmmap) \ {DirectBase} |-> vmmap[b]]
                  /\ \A a \in DirectBase..(DirectBase + rounded_size
                                                + PAGE_SIZE - 1) :
                        a \notin DOMAIN mem'
                  /\ stats'.gzalloc_freed = stats.gzalloc_freed + rounded_size
                  /\ zone' = zone]_vars
C22_Witness ==
    /\ gzfc_size = 0 /\ Len(obj) >= 1 /\ PostVM(1) /\ obj[1].nfree = 1
    /\ pc[1] = "idle" /\ panic = NoPanic
    /\ kmemLog = <<obj[1].base>> /\ EntryOf(obj[1].base) = {}
    /\ zone.z_elems_free = 0 /\ zone.z_wired_cur = 0

(* ------------------------------------------------ every element size --- *)
\* element sizes whose range fits the reserve: 1 .. 2 pages - header
AllSizes == 1..(2 * PAGE_SIZE - GZHEADER_SIZE)
InitSz ==
    /\ elem_size \in AllSizes /\ InitButSize
    /\ gztrackzone = FALSE /\ nthreads = 1
\* one thread through boot, allocating
NextSz ==
    \/ startup_advance
    \/ gzalloc_zone_init
    \/ zone.tracked /\ gzalloc_alloc_carve(1, FALSE, FALSE)
    \/ gzalloc_alloc_lock(1)
    \/ gzalloc_alloc_return(1)

SpecSz == InitSz /\ [][NextSz]_vars

(* C23: in overflow mode, for every element size E, the residue
   R = P - E with P = round_page(E + H) satisfies
   residue + element_size + header_size = P. *)
C23_Original ==
    ~gzalloc_uf_mode => residue + elem_size + GZHEADER_SIZE = rounded_size
(* C23 amended: residue + element_size = P; the residue is at least the
   header size and the header occupies its last H bytes, so the range holds
   residue - H bytes before the header, the header and the element:
   (residue - H) + H + E = P. *)
C23_ResidueIdentity ==
    ~gzalloc_uf_mode =>
        /\ rounded_size = round_page(elem_size + GZHEADER_SIZE)
        /\ residue + elem_size = rounded_size
        /\ GZHEADER_SIZE <= residue /\ residue < GZHEADER_SIZE + PAGE_SIZE
        /\ \A i \in 1..Len(obj) :
              /\ obj[i].p = obj[i].base + residue
              /\ obj[i].base <= obj[i].p - GZHEADER_SIZE
              /\ obj[i].p + elem_size = obj[i].base + rounded_size
              /\ PeekBytes(obj[i].p - U32_SIZE, U32_SIZE) = GZALLOC_SIGNATURE
C23_Witness ==
    /\ ~gzalloc_uf_mode /\ Len(obj) = 2 /\ obj[1].early /\ PostVM(2)
    /\ elem_size = PAGE_SIZE + 1 /\ pc[1] = "idle" /\ panic = NoPanic

(* C24: at the size boundary E = page - header_size the allocation
   occupies a single page (P = page), gzalloc_alloc returns a pointer whose
   header is valid, and with consistency checks enabled gzalloc_free of the
   untouched pointer completes without a panic in either layout mode. *)
C24_Original ==
    (/\ gzalloc_consistency_checks
     /\ elem_size = PAGE_SIZE - GZHEADER_SIZE
     /\ writes = 0 /\ Refrees = 0) =>
        /\ rounded_size = PAGE_SIZE
        /\ \A i \in 1..Len(obj) :
              Live(i) => HdrHolds(i, IF obj[i].early THEN GZDEADZONE
                                     ELSE ZonePtr)
        /\ pc[1] \in FreePcs => Running

(* C25: in underflow mode the region gzalloc_free scans for the fill
   pattern is exactly [header_end, round_page_up(element_ptr + E)) with
   header_end = element_ptr + E + H, so the scan covers no byte of the
   header (footer) itself. *)
HeaderEnd(addr) == addr + elem_size + GZHEADER_SIZE
C25_Original ==
    (/\ gzalloc_uf_mode /\ gzalloc_consistency_checks
     /\ Running /\ pc[1] = "f_check") =>
        /\ CheckRegion(loc[1].addr) =
              HeaderEnd(loc[1].addr)..(round_page(loc[1].addr + elem_size) - 1)
        /\ CheckRegion(loc[1].addr) \cap
              FreeGzh(loc[1].addr)..(HeaderEnd(loc[1].addr) - 1) = {}

(* C26: the ring insertion index is kept modulo N: in every reachable
   state, and when the double-free panic reports it, 0 <= gzfc_index < N for
   a tracked zone with capacity N >= 1. *)
C26_Original ==
    (zone.tracked /\ gzfc_size >= 1) =>
        /\ zone.gzfc_index \in 0..(gzfc_size - 1)
        /\ panic.kind = "dfree" => panic.idx \in 0..(gzfc_size - 1)

\* a step in which a free stores its base in the ring
InsertStep ==
    \E t \in Threads : pc[t] = "f_insert" /\ pc'[t] = "f_release"

(* C26 as the code has it: the stored index lies in 0..N, the value N being
   left behind by the insertion into the last slot; it is wrapped lazily, at
   the next insertion, so the slot written is always in 0..N-1 and the index
   after an insertion is that slot plus one (1..N).  The double-free panic
   reports the stored index, which can be N, and a hit slot in 0..N-1. *)
C26_RingIndexRange ==
    /\ [](zone.tracked /\ gzfc_size >= 1 =>
            /\ zone.gzfc_index \in 0..gzfc_size
            /\ Len(zone.gzfc) = gzfc_size
            /\ RingIndex(zone) \in 0..(gzfc_size - 1)
            /\ panic.kind = "dfree" =>
                  /\ panic.idx = zone.gzfc_index
                  /\ panic.gd \in 0..(gzfc_size - 1))
    /\ [][(InsertStep /\ gzfc_size >= 1) =>
            /\ zone'.gzfc_index = RingIndex(zone) + 1
            /\ zone'.gzfc_index \in 1..gzfc_size
            /\ \A k \in 1..gzfc_size :
                  k # RingIndex(zone) + 1 => zone'.gzfc[k] = zone.gzfc[k]]_vars

C26_Witness ==
    /\ zone.tracked /\ gzfc_size = 2
    /\ zone.gzfc_index = gzfc_size
    /\ panic.kind = "dfree" /\ panic.idx = gzfc_size

(* C27: when several threads concurrently free distinct post-VM
   allocations of the same zone, no ring insertion is lost or duplicated:
   each freed base occupies exactly one slot until evicted, bases are
   evicted in the order in which the frees acquired the zone lock for
   insertion, and each evicted base is passed to kmem_free exactly once, by
   the thread that evicted it. *)
\* frees only, of distinct allocations, with a ring
FreesOnly == Refrees = 0 /\ emptyCalls = 0 /\ gzfc_size >= 1
Occurrences(seq, a) == Cardinality({k \in DOMAIN seq : seq[k] = a})
\* the insertions (in lock order) whose base has been evicted, and those
\* whose base is still in the ring
NEvicted == IF Len(freeLog) > gzfc_size THEN Len(freeLog) - gzfc_size ELSE 0
EvictedBases == [k \in 1..NEvicted |-> obj[freeLog[k]].base]
KeptBases == {obj[freeLog[k]].base : k \in (NEvicted + 1)..Len(freeLog)}
\* evicted ranges a thread holds between its insertion and its kmem_free
HeldBy(a) ==
    Cardinality({t \in Threads :
                    pc[t] = "f_release" /\ loc[t].free_addr = a})
ReleaseStep(t) == pc[t] = "f_release" /\ pc'[t] # "f_release"
C27_ConcurrentFrees ==
    /\ [](FreesOnly =>
            /\ panic.kind \notin {"dfree", "kmem_free", "protect"}
            /\ RingSet = KeptBases
            /\ \A a \in RingSet : Occurrences(zone.gzfc, a) = 1
            /\ \A a \in {obj[i].base : i \in 1..Len(obj)}
                          \cup {kmemLog[k] : k \in 1..Len(kmemLog)} :
                  Occurrences(kmemLog, a) + HeldBy(a)
                      = Occurrences(EvictedBases, a))
    /\ [][FreesOnly =>
            \A t \in Threads :
              /\ (pc[t] = "f_insert" /\ pc'[t] = "f_release") =>
                    /\ freeLog' = Append(freeLog, loc[t].i)
                    /\ loc'[t].free_addr =
                          IF Len(freeLog) >= gzfc_size
                          THEN obj[freeLog[Len(freeLog) - gzfc_size + 1]].base
                          ELSE 0
              /\ ReleaseStep(t) =>
                    kmemLog' = IF loc[t].free_addr # 0
                               THEN Append(kmemLog, loc[t].free_addr)
                               ELSE kmemLog]_vars

C27_Witness ==
    /\ nthreads = 2 /\ FreesOnly /\ gzfc_size = 1
    /\ Len(freeLog) = 2
    /\ pc[1] = "f_release" /\ loc[1].free_addr # 0
    /\ pc[2] = "f_insert"
    /\ panic = NoPanic

(* C28: when gzalloc_empty_free_cache runs concurrently with gzalloc_free
   calls on the same zone (distinct allocations), every base that was ever
   inserted in the ring is released to the arena exactly once (by the
   emptying thread or by a later eviction, never both and never neither once
   the ring is emptied again), and once all threads finish z_elems_free has
   been incremented and z_wired_cur decremented exactly once per released
   range. *)
DistinctFrees == Refrees = 0 /\ gzfc_size >= 1
InsertedBases == [k \in 1..Len(freeLog) |-> obj[freeLog[k]].base]
\* ranges in the snapshot of a thread that is about to release them
InCopy(a) ==
    Cardinality({tk \in Threads \X (1..MaxFcSize) :
                    /\ pc[tk[1]] = "e_free"
                    /\ tk[2] <= Len(loc[tk[1]].copy)
                    /\ loc[tk[1]].copy[tk[2]] = a})
\* evictions already counted but not yet released, and ranges released by
\* the emptying thread but not yet counted
EvictionsHeld ==
    Cardinality({t \in Threads :
                    pc[t] = "f_release" /\ loc[t].free_addr # 0})
EmptiedUncounted(t) == IF pc[t] = "e_count" THEN loc[t].freed ELSE 0
AllocsCounted ==
    Len(obj) + Cardinality({t \in Threads : pc[t] = "a_unlock"})
ReleasesCounted ==
    Len(kmemLog) + EvictionsHeld - EmptiedUncounted(1) - EmptiedUncounted(2)
C28_EmptyWithFrees ==
    DistinctFrees =>
        /\ panic.kind \notin {"dfree", "kmem_free", "protect"}
        /\ \A a \in {obj[i].base : i \in 1..Len(obj)}
                      \cup {kmemLog[k] : k \in 1..Len(kmemLog)} :
              /\ Occurrences(zone.gzfc, a) + InCopy(a) + HeldBy(a)
                     + Occurrences(kmemLog, a) = Occurrences(InsertedBases, a)
              /\ Occurrences(zone.gzfc, a) + InCopy(a) + HeldBy(a) <= 1
        /\ zone.z_wired_cur = AllocsCounted - ReleasesCounted
        /\ zone.z_elems_free = ReleasesCounted - AllocsCounted
        /\ (\A t \in Threads : Idle(t)) =>
              /\ zone.z_elems_free = Len(kmemLog) - Len(obj)
              /\ zone.z_wired_cur = Len(obj) - Len(kmemLog)
              /\ RingSet = {} => Len(kmemLog) = Len(freeLog)

C28_Witness ==
    /\ nthreads = 2 /\ DistinctFrees /\ gzfc_size = 1 /\ emptyCalls = 1
    /\ \A t \in Threads : Idle(t)
    /\ Len(freeLog) = MaxAllocs /\ Len(kmemLog) = MaxAllocs
    /\ RingSet = {} /\ zone.z_wired_cur = 0
    /\ panic = NoPanic

(* C29: every integrity panic in gzalloc_free (computed base not
   page-aligned, double-free hit, signature mismatch, owner zone neither
   this zone nor the pre-VM sentinel, recorded size != E, fill-pattern
   deviation) is raised before the free has changed any state: at the panic
   the ring, its index, page protections, zone counters and global counters
   are exactly as they were when gzalloc_free was entered.  With one thread,
   every state from the entry to the panic has the thread at one of
   ProbePcs, so it is enough that no step into such a state changes
   anything, and that a free that goes on to change state has passed the
   checks. *)
IntegrityKinds == {"align", "dfree", "sig", "zone", "size", "fill"}
ProbePcs == {"f_entry", "f_dfree", "f_check"}
HeaderPasses(addr) ==
    /\ PeekBytes(FreeGzh(addr) + PTR_SIZE + U32_SIZE, U32_SIZE)
          = GZALLOC_SIGNATURE
    /\ PeekBytes(FreeGzh(addr), PTR_SIZE) \in {ZonePtr, GZDEADZONE}
    /\ PeekBytes(FreeGzh(addr) + PTR_SIZE, U32_SIZE)
          = LEBytes(elem_size, U32_SIZE)
    /\ \A a \in CheckRegion(addr) : Peek(a) = gzalloc_fill_pattern
C29_PanicBeforeChange ==
    /\ [](panic.kind \in IntegrityKinds => pc[1] \in ProbePcs)
    /\ [][pc'[1] \in ProbePcs =>
            UNCHANGED <<zone, vmmap, mem, stats, gzalloc_reserve,
                        gzalloc_reserve_size, freeLog, kmemLog>>]_vars
    /\ [][(/\ pc[1] = "f_check" /\ pc'[1] # "f_check"
            /\ gzalloc_consistency_checks) =>
            /\ HeaderPasses(loc[1].addr)
            /\ FreeSaddr(loc[1].addr) % PAGE_SIZE = 0
            /\ DfreeScan => DfreeHits(zone.gzfc, loc[1].saddr) = {}]_vars

C29_Witness ==
    /\ panic.kind = "sig" /\ pc[1] = "f_check"
    /\ RingSet # {} /\ zone.gzfc_index >= 1
    /\ stats.gzalloc_freed > 0

(* ------------------------------------------------------- the reserve --- *)
\* a ring capacity whose array does not fit the reserve
BigFc == (ReservePages * PAGE_SIZE) \div PTR_SIZE + 1
InitRes ==
    /\ elem_size \in ElemSizes
    /\ gzfc_size \in {0, 1, BigFc}
    /\ InitButRing
    /\ gztrackzone = FALSE /\ nthreads = 1
\* one thread through boot, initialising the zone and allocating
NextRes ==
    \/ startup_advance
    \/ gzalloc_zone_init
    \/ zone.tracked /\ gzalloc_alloc_carve(1, FALSE, FALSE)
    \/ gzalloc_alloc_lock(1)
    \/ gzalloc_alloc_return(1)

SpecRes == InitRes /\ [][NextRes]_vars

(* C30: the reserve is a strict bump allocator: over any sequence of pre-VM
   gzalloc_zone_init and gzalloc_alloc calls, gzalloc_reserve +
   gzalloc_reserve_size stays constant, gzalloc_reserve never decreases, the
   ranges handed out (ring arrays of round_page(8 * fc_size) bytes,
   allocations of P + page bytes) are pairwise disjoint and lie inside the
   stolen range, and a request larger than the remaining size panics with
   "reserve exhausted" without changing the reserve.  Every range handed
   out is [gzalloc_reserve, gzalloc_reserve'), so with the pointer never
   decreasing the ranges are consecutive. *)
RingBytes == round_page(PTR_SIZE * gzfc_size)
AllocBytes == round_page(elem_size + GZHEADER_SIZE) + PAGE_SIZE
EarlyObjs == {i \in 1..Len(obj) : obj[i].early}
\* the steps that take from the reserve
RingCarveStep ==
    /\ ~zone.inited /\ zone'.inited /\ zone'.tracked
    /\ gzfc_size > 0 /\ phase = 0
EarlyAllocStep ==
    phase < 2 /\ pc[1] = "idle" /\ pc'[1] = "a_lock"
ExhaustedStep == panic.kind = "none" /\ panic'.kind = "reserve"
ReserveStep ==
    /\ gzalloc_reserve' >= gzalloc_reserve
    /\ gzalloc_reserve' + gzalloc_reserve_size'
          = gzalloc_reserve + gzalloc_reserve_size
    /\ gzalloc_reserve' # gzalloc_reserve =>
          (RingCarveStep \/ EarlyAllocStep)
    /\ (RingCarveStep /\ panic' = NoPanic) =>
          gzalloc_reserve' = gzalloc_reserve + RingBytes
    /\ EarlyAllocStep =>
          /\ loc'[1].saddr = gzalloc_reserve
          /\ gzalloc_reserve' = gzalloc_reserve + AllocBytes
    /\ ExhaustedStep =>
          /\ UNCHANGED <<gzalloc_reserve, gzalloc_reserve_size>>
          /\ \/ RingCarveStep /\ gzalloc_reserve_size < RingBytes
             \/ /\ phase < 2 /\ pc[1] = "idle"
                /\ gzalloc_reserve_size < AllocBytes
ReserveState ==
    /\ gzalloc_reserve + gzalloc_reserve_size = RESERVE_END
    /\ RESERVE_BASE <= gzalloc_reserve
    /\ gzalloc_reserve_size >= 0
    /\ \A i \in EarlyObjs :
          /\ RESERVE_BASE <= obj[i].base
          /\ obj[i].base + AllocBytes <= gzalloc_reserve
          /\ \A j \in EarlyObjs \ {i} :
                \/ obj[i].base + AllocBytes <= obj[j].base
                \/ obj[j].base + AllocBytes <= obj[i].base
    /\ \A k \in 1..Len(obj) : obj[k].early <=> InReserve(obj[k].base)
C30_ReserveBump == []ReserveState /\ [][ReserveStep]_vars

C30_Witness ==
    /\ Cardinality(EarlyObjs) = 2
    /\ gzalloc_reserve = RESERVE_END /\ gzalloc_reserve_size = 0
    /\ panic.kind = "reserve" /\ pc[1] = "idle"

(* C31: zone counter conservation: for a tracked zone, whenever no alloc,
   free or empty_free_cache call is in progress, z_wired_cur minus its
   initial value equals (number of live allocations) + (number of non-zero
   ring slots) + (number of pre-VM allocations that were freed and leaked),
   and z_elems_free has decreased from its initial value by the same amount.
   The callers free every pointer at most once. *)
Quiescent == Running /\ \A t \in Threads : Idle(t)
LiveCount == Cardinality({i \in 1..Len(obj) : obj[i].nfree = 0})
RingCount ==
    Cardinality({k \in 1..Len(zone.gzfc) : zone.gzfc[k] # 0})
LeakedCount ==
    Cardinality({i \in 1..Len(obj) : obj[i].early /\ obj[i].nfree >= 1})
Outstanding == LiveCount + RingCount + LeakedCount
C33_Original ==
    (gzalloc_dfree_check /\ gzfc_size >= 1) =>
        /\ \A a \in RingSet : Occurrences(zone.gzfc, a) = 1
        /\ \A t \in Threads :
              (pc[t] = "f_release" /\ loc[t].free_addr # 0) =>
                  loc[t].free_addr \notin RingSet
        /\ panic.kind # "kmem_free"

(* ----------------------------------------------------- SOSRingUtils.c --- *)
\* RINGVERSION and the number of ring types (SOSRingType is 0 ..
\* kSOSRingTypeCount - 1; the enumeration is declared in SOSRingTypes.h)
RINGVERSION == 1
kSOSRingTypeCount == 6
\* ring names callers pass; NoName is the NULL CFStringRef
RingNames == {"ringA", "ringB"}
NoName == "NULL"

\* line 131: SOSRingCheckType
SOSRingCheckType(type) == type < kSOSRingTypeCount

\* the getters read the values stored under sNameKey, sTypeKey,
\* sRingVersionKey and sIdentifierKey
SOSRingGetName(ring) == ring.name
SOSRingGetType(ring) == ring.type
SOSRingGetVersion(ring) == ring.version
SOSRingGetIdentifier(ring) == ring.identifier
\* CFEqualSafe on two non-NULL references
CFEqualSafe(a, b) == a = b

\* lines 214-234
SOSRingIsSame(ring1, ring2) ==
    LET name1 == SOSRingGetName(ring1)
        name2 == SOSRingGetName(ring2)
        type1 == SOSRingGetType(ring1)
        type2 == SOSRingGetVersion(ring2)
        identifier1 == SOSRingGetIdentifier(ring1)
        identifier2 == SOSRingGetIdentifier(ring2)
    IN
    IF name1 = NoName \/ name2 = NoName THEN FALSE
    ELSE IF ~CFEqualSafe(name1, name2) THEN FALSE
    ELSE IF type1 = 0 \/ type2 = 0 THEN FALSE
    ELSE IF type1 # type2 THEN FALSE
    ELSE IF ~CFEqualSafe(identifier1, identifier2) THEN FALSE
    ELSE TRUE

\* lines 471-516: NULL for a NULL name or a bad type; otherwise a ring with
\* the name, the type, RINGVERSION and an identifier made from a new UUID
\* (CFUUIDCreate: no two calls return the same one)
SOSRingCreate_Internal(name, type) ==
    /\ Len(sos.rings) < MaxRings
    /\ IF name = NoName \/ ~SOSRingCheckType(type)
       THEN sos' = [sos EXCEPT !.q = [op |-> "create", a |-> 0, b |-> 0,
                                      ret |-> "NULL"]]
       ELSE sos' = [rings |-> Append(sos.rings,
                                 [name |-> name, type |-> type,
                                  version |-> RINGVERSION,
                                  identifier |-> Len(sos.rings) + 1]),
                    q |-> [op |-> "create", a |-> Len(sos.rings) + 1,
                           b |-> 0, ret |-> "ring"]]
    /\ UNCHANGED <<gzalloc_uf_mode, gzalloc_prot, gzalloc_consistency_checks,
                   gzalloc_dfree_check, gzfc_size, elem_size, nthreads,
                   gzalloc_mode, gzalloc_min, gzalloc_max, gznamedzone,
                   bootargs, configured, z_name, esz, gztrackzone, phase,
                   gzalloc_reserve, gzalloc_reserve_size, vmmap, mem, zone,
                   zlock, stats, pc, loc, panic, obj, freeLog, kmemLog,
                   writes, emptyCalls, hist>>

\* a caller compares two of the rings it created
ring_is_same(i, j) ==
    /\ i \in 1..Len(sos.rings) /\ j \in 1..Len(sos.rings)
    /\ sos' = [sos EXCEPT !.q =
                  [op |-> "same", a |-> i, b |-> j,
                   ret |-> IF SOSRingIsSame(sos.rings[i], sos.rings[j])
                           THEN "TRUE" ELSE "FALSE"]]
    /\ UNCHANGED <<gzalloc_uf_mode, gzalloc_prot, gzalloc_consistency_checks,
                   gzalloc_dfree_check, gzfc_size, elem_size, nthreads,
                   gzalloc_mode, gzalloc_min, gzalloc_max, gznamedzone,
                   bootargs, configured, z_name, esz, gztrackzone, phase,
                   gzalloc_reserve, gzalloc_reserve_size, vmmap, mem, zone,
                   zlock, stats, pc, loc, panic, obj, freeLog, kmemLog,
                   writes, emptyCalls, hist>>

\* the allocator is left alone: one of its initial states
InitRing ==
    /\ Init
    /\ ~gzalloc_uf_mode /\ gzalloc_prot = "none"
    /\ gzalloc_consistency_checks /\ gzalloc_dfree_check
    /\ gzfc_size = 0 /\ elem_size = SetMin(ElemSizes)
NextRing ==
    \/ \E name \in RingNames \cup {NoName}, type \in 0..kSOSRingTypeCount :
          SOSRingCreate_Internal(name, type)
    \/ \E i \in 1..MaxRings, j \in 1..MaxRings : ring_is_same(i, j)

SpecRing == InitRing /\ [][NextRing]_vars

(* C34: SOSRingIsSame is an identity test that is reflexive and symmetric:
   for every ring r created by SOSRingCreate_Internal with a valid name and
   any valid ring type, SOSRingIsSame(r, r) is true, and for any two such
   rings a and b, SOSRingIsSame(a, b) = SOSRingIsSame(b, a). *)
C34_Original ==
    /\ sos.q.op = "same" /\ sos.q.a = sos.q.b => sos.q.ret = "TRUE"
    /\ \A i \in 1..Len(sos.rings), j \in 1..Len(sos.rings) :
          /\ SOSRingIsSame(sos.rings[i], sos.rings[i])
          /\ SOSRingIsSame(sos.rings[i], sos.rings[j])
                = SOSRingIsSame(sos.rings[j], sos.rings[i])

====
